---------------------------- MODULE Spec2Model ----------------------------
(***************************************************************************)
(* Model of the two parallel coordinators of the repository:               *)
(*   attack/parallel_attack.py          (variant = "attack")               *)
(*   attack/parallel_rainbow_attack.py  (variant = "rainbow")              *)
(* One behaviour is one run of one of the two programs: the main process   *)
(* (mpc) and its worker processes (wpc), the multiprocessing.Event and the *)
(* multiprocessing.Queue they share.                                       *)
(* A third kind of run (variant = "server") is the login handler of        *)
(*   server/secure_server.py with defense/counter.py and defense/delay.py: *)
(* the record of one user, the clock, and the requests in flight.          *)
(* Two further kinds of run: log_auth_attempt of defense/logging.py called *)
(* by the handler threads (variant = "logging"), and the serial attack     *)
(* attack/mono_attack.py with the retry loop of try_post (variant =        *)
(* "mono").                                                                *)
(***************************************************************************)
EXTENDS Integers, Sequences, FiniteSets, TLC

\* Bounds of the model.
MaxWorkers == 2
MaxLen == 2
MaxCandidates == 7
MaxUsers == 3
MaxRequests == 6
MaxTicks == 2

VARIABLES
    variant,        \* which program runs: "attack", "rainbow", "server", ...
    args,           \* the argparse namespace of main()
    password,       \* the target account's password (server side)
    net_ok,         \* TRUE: no request raises requests.RequestException
    users,          \* rainbow: rows returned by get_users()
    rainbow_table,  \* rainbow: the loaded table, a function hash -> plaintext
    mpc,            \* main(): position in the code
    i,              \* main(): index of the for loop over workers / processes
    interrupted,    \* main(): KeyboardInterrupt was raised in the join loop
    found_event,    \* multiprocessing.Event
    result_queue,   \* multiprocessing.Queue, oldest message first
    sent,           \* every message put so far, in the order of arrival
    received,       \* number of result_queue.get() calls that returned
    rc,             \* {} while main() runs, {status} once it returned
    report,         \* what main() printed as its final report
    wpc,            \* worker_process(): position in the code, per worker
    it,             \* worker: items taken so far from its islice iterator
    candidate,      \* worker: loop variable of the for loop
    attempts,       \* worker: local counter
    late,           \* worker: requests started while found_event was set
    probed,         \* worker: positions of the candidates it has posted, in order
    set_calls,      \* number of found_event.set() calls made so far
    found,          \* rainbow worker: local counter
    not_found,      \* rainbow worker: local counter
    workers_done,   \* rainbow main(): local counter
    total_found,    \* rainbow main(): local counter
    total_not_found, \* rainbow main(): local counter
    cracked_passwords, \* rainbow main(): list of (username, password)
    now,            \* server: time.time(), in seconds
    ticks,          \* server: number of times the clock has advanced
    requests,       \* server: number of requests received so far
    failed_attempts, \* server: users.failed_attempts of the user
    locked_until,   \* server: users.locked_until of the user
    rpc,            \* login(): position in the code, per request in flight
    req,            \* login(): the request being handled
    new_count,      \* increment_failed_attempts(): local variable
    delay,          \* apply_progressive_delay(): local variable
    last,           \* the request answered last, its delay and status code
    overlapped,     \* two requests have been in flight at the same time
    streak,         \* failed password checks recorded since the last reset
    FORMSPREE_ENABLED, \* logging.py: the setting of that name
    auth_attempts,  \* logging: rows of the auth_attempts table, oldest first
    last_alert_times, \* logging: the dict _last_alert_times
    alerts,         \* logging: the alert emails posted so far, oldest first
    lpc,            \* log_auth_attempt(): position in the code, per thread
    lreq,           \* log_auth_attempt(): username and success of the call
    failed_count,   \* log_auth_attempt(): local variable
    spc,            \* mono_attack main() and try_post(): position in the code
    pulled,         \* mono_attack: candidates taken from the product so far
    attempt,        \* try_post(): loop variable
    backoff,        \* try_post(): local variable, in milliseconds
    resp,           \* main(): r, the value try_post returned
    tried,          \* main(): local counter
    outcomes,       \* try_post(): outcome of each request of the current call
    slept           \* try_post(): its sleeps in the current call, in milliseconds

vars == <<variant, args, password, net_ok, users, rainbow_table, mpc, i,
          interrupted, found_event, result_queue, sent, received, rc, report,
          wpc, it, candidate, attempts, late, probed, set_calls,
          found, not_found,
          workers_done, total_found, total_not_found, cracked_passwords,
          now, ticks, requests, failed_attempts, locked_until, rpc, req, new_count,
          delay, last, overlapped, streak,
          FORMSPREE_ENABLED, auth_attempts, last_alert_times, alerts, lpc,
          lreq, failed_count,
          spc, pulled, attempt, backoff, resp, tried, outcomes, slept>>

inputs == <<variant, args, password, net_ok, users, rainbow_table>>
rainbow_vars == <<found, not_found, workers_done, total_found, total_not_found,
                  cracked_passwords>>
logging_vars == <<FORMSPREE_ENABLED, auth_attempts, last_alert_times, alerts,
                  lpc, lreq, failed_count>>
mono_vars == <<spc, pulled, attempt, backoff, resp, tried, outcomes, slept>>
server_vars == <<now, ticks, requests, failed_attempts, locked_until, rpc, req,
                 new_count, delay, last, overlapped, streak>>
coordinator_vars == <<mpc, i, interrupted, found_event, result_queue, sent,
                      received, rc, report, wpc, it, candidate, attempts, late,
                      probed,
                      set_calls, rainbow_vars>>

-----------------------------------------------------------------------------
\* Exit statuses returned by main().
EXIT_SUCCESS == 0
EXIT_NOT_FOUND == 1
EXIT_CONFIG == 2
EXIT_INTERRUPTED == 130

\* range(args.workers): empty when args.workers <= 0.
Workers == 0 .. (args.workers - 1)

\* itertools.product(alphabet, repeat=n) joined to strings, in its order
\* (the rightmost position advances fastest).
RECURSIVE product_leftmost_fastest(_, _)
product_leftmost_fastest(alphabet, n) ==
    IF n = 0 THEN <<"">>
    ELSE LET p == product_leftmost_fastest(alphabet, n - 1)
             k == Len(alphabet)
         IN  [j \in 1 .. (Len(p) * k) |->
                 alphabet[((j - 1) % k) + 1] \o p[((j - 1) \div k) + 1]]

RECURSIVE product(_, _)
product(alphabet, n) ==
    IF n = 0 THEN <<"">>
    ELSE LET p == product(alphabet, n - 1)
             k == Len(alphabet)
         IN  [j \in 1 .. (Len(p) * k) |->
                 p[((j - 1) \div k) + 1] \o alphabet[((j - 1) % k) + 1]]

\* generate_candidates_mono: all lengths 1..max_len, shortest first.
RECURSIVE generate_candidates_mono(_, _)
generate_candidates_mono(alphabet, max_len) ==
    IF max_len <= 0 THEN <<>>
    ELSE generate_candidates_mono(alphabet, max_len - 1)
             \o product(alphabet, max_len)

\* generate_candidates_poly: the same generator.
generate_candidates_poly(alphabet, max_len) ==
    generate_candidates_mono(alphabet, max_len)

\* build_alphabet of mono_attack for kind "custom": the custom string.
build_mono_alphabet(kind, custom) == custom

\* string.digits, the alphabet of poly mode under --digits.
string_digits == <<"0", "1", "2", "3", "4", "5", "6", "7", "8", "9">>

\* mutate_word: the word under each suffix, then, when the leet spelling
\* differs from the word, the leet spelling under each suffix. A word is a
\* sequence of characters.
suffixes == <<"", "1", "123", "!", "@", "2024", "2025">>
leet(ch) ==
    CASE ch \in {"o", "O"} -> "0"
      [] ch \in {"a", "A"} -> "@"
      [] ch \in {"i", "I"} -> "1"
      [] ch \in {"e", "E"} -> "3"
      [] ch \in {"s", "S"} -> "$"
      [] OTHER -> ch
RECURSIVE join(_)
join(chars) == IF chars = <<>> THEN "" ELSE Head(chars) \o join(Tail(chars))
mutate_word(word) ==
    LET mutated == [k \in 1 .. Len(word) |-> leet(word[k])]
        with(w) == [k \in 1 .. Len(suffixes) |-> join(w) \o suffixes[k]]
    IN  IF mutated # word THEN with(word) \o with(mutated) ELSE with(word)

\* generate_candidates_dict: the mutations of each word, word after word.
RECURSIVE generate_candidates_dict(_)
generate_candidates_dict(wordlist) ==
    IF wordlist = <<>> THEN <<>>
    ELSE mutate_word(Head(wordlist))
             \o generate_candidates_dict(Tail(wordlist))

\* The files --list may name, with their words; load_wordlist exits on a
\* path that names no file.
Files == [empty_txt |-> <<>>, words_txt |-> << <<"0">> >>]
load_wordlist(path) == Files[path]

\* The values --workers, --custom and the account's password are drawn from.
WorkerCounts == (0 - 1) .. MaxWorkers
Alphabets == {<<"0">>, <<"0", "1">>, <<"1", "0">>, <<"0", "0">>}
Passwords == {"0", "10", "x"}

\* The values of --list: absent, a path that names no file, or a file.
Lists == {"", "missing_txt"} \cup DOMAIN Files

\* The generators on the inputs of the model, computed once.
CandidateTable ==
    [a \in Alphabets, l \in 0 .. MaxLen |-> generate_candidates_mono(a, l)]
PolyTable ==
    [l \in 0 .. MaxLen |-> generate_candidates_poly(string_digits, l)]
DictTable ==
    [f \in DOMAIN Files |-> generate_candidates_dict(load_wordlist(f))]

\* Lines 62-100 of worker_process reach line 102: build_alphabet does not
\* raise (`not custom`), poly mode has a flag (`not parts`), load_wordlist
\* finds the file.
CanBuild ==
    CASE args.mode = "mono" -> args.alphabet = "custom" /\ args.custom # <<>>
      [] args.mode = "poly" -> args.digits
      [] args.mode = "dict" -> args.list \in DOMAIN Files

\* The candidate sequence every worker rebuilds from args_dict (lines
\* 62-97); a worker whose build fails has none and takes no item.
Candidates ==
    IF ~CanBuild THEN <<>>
    ELSE CASE args.mode = "mono" ->
                CandidateTable[build_mono_alphabet(args.alphabet, args.custom),
                               args.max_len]
           [] args.mode = "poly" -> PolyTable[args.max_len]
           [] args.mode = "dict" -> DictTable[args.list]

\* islice(seq, start, None, step): the items at 0-based positions
\* start, start+step, start+2*step, ...
RECURSIVE islice_bad_start(_, _, _)
islice_bad_start(seq, start, step) ==
    IF start + 1 >= Len(seq) THEN <<>>
    ELSE <<seq[start + 2]>> \o islice_bad_start(seq, start + step, step)

RECURSIVE islice(_, _, _)
islice(seq, start, step) ==
    IF start >= Len(seq) THEN <<>>
    ELSE <<seq[start + 1]>> \o islice(seq, start + step, step)

\* The 0-based positions 0..m-1 as a sequence.
Positions(m) == [j \in 1 .. m |-> j - 1]

\* assigned_iter of worker w, as a sequence.
Assigned(w) == islice(Candidates, w, args.workers)

\* The 0-based position in the candidate sequence of the k-th item (k >= 1)
\* that islice hands to worker w.
Position(w, k) == islice(Positions(Len(Candidates)), w, args.workers)[k]

\* The answer of server/vulnerable_server.py login() to one candidate
\* (status code): 200 on the stored password, 401 otherwise.
Server(c) == IF c = password THEN "200" ELSE "401"

\* try_post: the response, or None when the request raised.
try_post(c) == {Server(c)} \cup (IF net_ok THEN {} ELSE {"None"})

\* `r and r.status_code == 200`
SuccessInverted(r) == r # "None" /\ r # "200"

Success(r) == r # "None" /\ r = "200"

\* Event.set() and Event.is_set() on the value of the flag.
EventSetToggle(e) == ~e

EventSet(e) == TRUE

is_set(e) == e

\* Queue.put, Queue.empty on the queue's content.
QueuePutFront(q, m) == <<m>> \o q

QueuePut(q, m) == Append(q, m)

QueueEmpty(q) == q = <<>>

\* hashlib.sha1(s.encode("utf-8")).hexdigest(): a digest that differs from
\* its input and is distinct for distinct inputs of the model.
sha1(s) == "sha1:" \o s

\* my_users of rainbow worker w (line 66).
my_users(w) == islice(users, w, args.workers)

\* A process that has exited (join returns).
Exited ==
    {"found", "exhausted", "cancelled", "terminated", "done", "failed",
     "crashed"}

NoReport == [kind |-> "", found |-> <<>>]

-----------------------------------------------------------------------------
\* Inputs of a run.

InitCommon ==
    /\ mpc = "parse"
    /\ i = 0
    /\ interrupted = FALSE
    /\ found_event = FALSE
    /\ result_queue = <<>>
    /\ sent = <<>>
    /\ received = 0
    /\ rc = {}
    /\ report = NoReport
    /\ wpc = [w \in Workers |-> "idle"]
    /\ it = [w \in Workers |-> 0]
    /\ candidate = [w \in Workers |-> ""]
    /\ attempts = [w \in Workers |-> 0]
    /\ late = [w \in Workers |-> 0]
    /\ probed = [w \in Workers |-> <<>>]
    /\ set_calls = 0
    /\ found = [w \in Workers |-> 0]
    /\ not_found = [w \in Workers |-> 0]
    /\ workers_done = 0
    /\ total_found = 0
    /\ total_not_found = 0
    /\ cracked_passwords = <<>>

InitAttack ==
    /\ variant = "attack"
    /\ \E n \in WorkerCounts :
          \/ \E a \in {"None", "custom"}, c \in Alphabets \cup {<<>>},
                l \in 0 .. MaxLen :
                args = [mode |-> "mono", workers |-> n, alphabet |-> a,
                        custom |-> c, max_len |-> l, digits |-> FALSE,
                        list |-> ""]
          \/ \E d \in BOOLEAN, l \in 0 .. MaxLen :
                args = [mode |-> "poly", workers |-> n, alphabet |-> "None",
                        custom |-> <<>>, max_len |-> l, digits |-> d,
                        list |-> ""]
          \/ \E f \in Lists :
                args = [mode |-> "dict", workers |-> n, alphabet |-> "None",
                        custom |-> <<>>, max_len |-> 0, digits |-> FALSE,
                        list |-> f]
    /\ Len(Candidates) <= MaxCandidates
    /\ password \in Passwords
    /\ net_ok \in BOOLEAN
    /\ users = <<>>
    /\ rainbow_table = <<>>

\* Rows of the users table: user j is named "u<j>".
Secrets == {"a", "b"}
UserLists ==
    UNION {[1 .. n -> Secrets] : n \in 0 .. MaxUsers}
UserName(j) == "u" \o ToString(j)
Tables == {[h \in {sha1("a")} |-> "a"]}

InitRainbow ==
    /\ variant = "rainbow"
    /\ \E n \in WorkerCounts, d \in BOOLEAN :
          args = [workers |-> n, db_exists |-> d]
    /\ \E secrets \in UserLists :
          users = [j \in 1 .. Len(secrets) |-> <<UserName(j), secrets[j]>>]
    /\ rainbow_table \in Tables
    /\ password = ""
    /\ net_ok = TRUE

\* The handler threads of the server, one per client that sends requests.
Clients == {1, 2}
NoRequest == [username |-> "", password |-> "", captcha |-> FALSE]
NoResponse ==
    [client |-> 0, password |-> "", captcha |-> FALSE, delay |-> 0,
     status |-> 0]

\* The server is not part of a run of the coordinators.
InitNoServer ==
    /\ now = 0
    /\ ticks = 0
    /\ requests = 0
    /\ failed_attempts = 0
    /\ locked_until = 0
    /\ rpc = [r \in Clients |-> "idle"]
    /\ req = [r \in Clients |-> NoRequest]
    /\ new_count = [r \in Clients |-> 0]
    /\ delay = [r \in Clients |-> 0]
    /\ last = NoResponse
    /\ overlapped = FALSE
    /\ streak = 0

\* Nothing is logged in a run of the coordinators.
NoCall == [username |-> "", success |-> FALSE]
InitNoLogging ==
    /\ FORMSPREE_ENABLED = FALSE
    /\ auth_attempts = <<>>
    /\ last_alert_times = << >>
    /\ alerts = <<>>
    /\ lpc = [t \in Clients |-> "idle"]
    /\ lreq = [t \in Clients |-> NoCall]
    /\ failed_count = [t \in Clients |-> 0]

\* The serial attack is not part of a run of the coordinators.
InitNoMono ==
    /\ spc = "parse"
    /\ pulled = 0
    /\ attempt = 0
    /\ backoff = 0
    /\ resp = ""
    /\ tried = 0
    /\ outcomes = <<>>
    /\ slept = <<>>

Init ==
    (InitAttack \/ InitRainbow) /\ InitCommon /\ InitNoServer
        /\ InitNoLogging /\ InitNoMono

-----------------------------------------------------------------------------
\* parallel_attack.main()

\* Lines 153-159: mode-specific validation, then lines 191-197.
ParseArgs ==
    /\ variant = "attack"
    /\ mpc = "parse"
    /\ IF \/ args.mode = "mono" /\ args.alphabet = "None"
          \/ args.mode = "dict" /\ args.list = ""
       THEN /\ mpc' = "done"
            /\ rc' = {EXIT_CONFIG}
            /\ UNCHANGED <<found_event, result_queue, i>>
       ELSE /\ mpc' = "spawn"
            /\ found_event' = FALSE
            /\ result_queue' = <<>>
            /\ i' = 0
            /\ UNCHANGED rc
    /\ UNCHANGED <<server_vars, inputs, logging_vars, mono_vars, sent, interrupted, received, report, wpc, it, candidate,
                   attempts, late, probed, set_calls, rainbow_vars>>

\* Lines 199-206: one iteration of the loop that starts the workers.
Spawn ==
    /\ variant = "attack"
    /\ mpc = "spawn"
    /\ IF i \in Workers
       THEN /\ wpc' = [wpc EXCEPT ![i] = "build"]
            /\ i' = i + 1
            /\ UNCHANGED mpc
       ELSE /\ mpc' = "join"
            /\ i' = 0
            /\ UNCHANGED wpc
    /\ UNCHANGED <<server_vars, inputs, logging_vars, mono_vars, sent, interrupted, found_event, result_queue, received,
                   rc, report, it, candidate, attempts, late, probed, set_calls,
                   rainbow_vars>>

JoinNoWait ==
    /\ variant = "attack"
    /\ mpc = "join"
    /\ IF i \in Workers
       THEN /\ i' = i + 1
            /\ UNCHANGED mpc
       ELSE /\ mpc' = "report"
            /\ UNCHANGED i
    /\ UNCHANGED <<server_vars, inputs, logging_vars, mono_vars, sent, interrupted, found_event, result_queue,
                   received, rc, report, wpc, it, candidate, attempts, late, probed,
                   set_calls, rainbow_vars>>

JoinOnlyFound ==
    /\ variant = "attack"
    /\ mpc = "join"
    /\ IF i \in Workers
       THEN /\ wpc[i] = "found"
            /\ i' = i + 1
            /\ UNCHANGED mpc
       ELSE /\ mpc' = "report"
            /\ UNCHANGED i
    /\ UNCHANGED <<server_vars, inputs, logging_vars, mono_vars, sent, interrupted, found_event, result_queue, received,
                   rc, report, wpc, it, candidate, attempts, late, probed, set_calls,
                   rainbow_vars>>

\* Lines 212-213: p.join() returns once process i has exited.
Join ==
    /\ variant = "attack"
    /\ mpc = "join"
    /\ IF i \in Workers
       THEN /\ wpc[i] \in Exited
            /\ i' = i + 1
            /\ UNCHANGED mpc
       ELSE /\ mpc' = "report"
            /\ UNCHANGED i
    /\ UNCHANGED <<server_vars, inputs, logging_vars, mono_vars, sent, interrupted, found_event, result_queue, received,
                   rc, report, wpc, it, candidate, attempts, late, probed, set_calls,
                   rainbow_vars>>

\* Line 214: KeyboardInterrupt raised while main() is in the join loop.
Interrupt ==
    /\ variant = "attack"
    /\ mpc = "join"
    /\ mpc' = "intr_set"
    /\ interrupted' = TRUE
    /\ UNCHANGED <<server_vars, inputs, logging_vars, mono_vars, sent, i, found_event, result_queue, received, rc, report,
                   wpc, it, candidate, attempts, late, probed, set_calls,
                   rainbow_vars>>

\* Lines 215-216: found_event.set() in the handler.
InterruptSet ==
    /\ variant = "attack"
    /\ mpc = "intr_set"
    /\ found_event' = EventSet(found_event)
    /\ set_calls' = set_calls + 1
    /\ mpc' = "intr_term"
    /\ i' = 0
    /\ UNCHANGED <<server_vars, inputs, logging_vars, mono_vars, sent, interrupted, result_queue, received, rc, report,
                   wpc, it, candidate, attempts, late, probed, rainbow_vars>>

InterruptTerminateEvery ==
    /\ variant = "attack"
    /\ mpc = "intr_term"
    /\ IF i \in Workers
       THEN /\ wpc' = [wpc EXCEPT ![i] = "terminated"]
            /\ i' = i + 1
            /\ UNCHANGED <<mpc, rc, report>>
       ELSE /\ mpc' = "done"
            /\ rc' = {EXIT_INTERRUPTED}
            /\ report' = [kind |-> "INTERRUPTED", found |-> <<>>]
            /\ UNCHANGED <<i, wpc>>
    /\ UNCHANGED <<server_vars, inputs, logging_vars, mono_vars, sent, interrupted, found_event, result_queue,
                   received, it, candidate, attempts, late, probed, set_calls,
                   rainbow_vars>>

\* Lines 217-220: p.terminate(); p.join(timeout=2) per process, then return.
\* terminate() has no effect on a process that has exited.
InterruptTerminate ==
    /\ variant = "attack"
    /\ mpc = "intr_term"
    /\ IF i \in Workers
       THEN /\ wpc' = [wpc EXCEPT
                          ![i] = IF @ \in Exited THEN @ ELSE "terminated"]
            /\ i' = i + 1
            /\ UNCHANGED <<mpc, rc, report>>
       ELSE /\ mpc' = "done"
            /\ rc' = {EXIT_INTERRUPTED}
            /\ report' = [kind |-> "INTERRUPTED", found |-> <<>>]
            /\ UNCHANGED <<i, wpc>>
    /\ UNCHANGED <<server_vars, inputs, logging_vars, mono_vars, sent, interrupted, found_event, result_queue, received,
                   it, candidate, attempts, late, probed, set_calls, rainbow_vars>>

\* Lines 224-241: the final report.
Report ==
    /\ variant = "attack"
    /\ mpc = "report"
    /\ IF ~QueueEmpty(result_queue)
       THEN /\ report' = [kind |-> "SUCCESS", found |-> <<Head(result_queue)>>]
            /\ result_queue' = Tail(result_queue)
            /\ received' = received + 1
            /\ rc' = {EXIT_SUCCESS}
       ELSE /\ report' = [kind |-> "NOT FOUND", found |-> <<>>]
            /\ rc' = {EXIT_NOT_FOUND}
            /\ UNCHANGED <<result_queue, received>>
    /\ mpc' = "done"
    /\ UNCHANGED <<server_vars, inputs, logging_vars, mono_vars, sent, i, interrupted, found_event, wpc, it, candidate,
                   attempts, late, probed, set_calls, rainbow_vars>>

-----------------------------------------------------------------------------
\* parallel_attack.worker_process(worker_id = w, ...)

main_vars == <<mpc, i, interrupted, received, rc, report>>

\* Lines 59-103: build the generator, attempts = 0, the islice iterator; the
\* process ends here when build_alphabet raises (line 63), poly mode has no
\* flag (line 89) or load_wordlist exits (line 96).
WorkerBuild(w) ==
    /\ variant = "attack"
    /\ wpc[w] = "build"
    /\ wpc' = [wpc EXCEPT ![w] = IF CanBuild THEN "loop" ELSE "failed"]
    /\ attempts' = [attempts EXCEPT ![w] = 0]
    /\ it' = [it EXCEPT ![w] = 0]
    /\ UNCHANGED <<server_vars, inputs, logging_vars, mono_vars, sent, main_vars, found_event, result_queue, candidate,
                   late, probed, set_calls, rainbow_vars>>

WorkerLoopNoPoll(w) ==
    /\ variant = "attack"
    /\ wpc[w] = "loop"
    /\ IF it[w] < Len(islice(Candidates, w, args.workers))
       THEN /\ candidate' = [candidate EXCEPT
                ![w] = islice(Candidates, w, args.workers)[it[w] + 1]]
            /\ it' = [it EXCEPT ![w] = @ + 1]
            /\ wpc' = [wpc EXCEPT ![w] = "post"]
       ELSE /\ wpc' = [wpc EXCEPT ![w] = "exhausted"]
            /\ UNCHANGED <<candidate, it>>
    /\ UNCHANGED <<server_vars, inputs, logging_vars, mono_vars, sent, main_vars, found_event, result_queue,
                   attempts, late, probed, set_calls, rainbow_vars>>

WorkerLoopPollFirst(w) ==
    /\ variant = "attack"
    /\ wpc[w] = "loop"
    /\ IF is_set(found_event)
       THEN /\ wpc' = [wpc EXCEPT ![w] = "cancelled"]
            /\ UNCHANGED <<candidate, it>>
       ELSE IF it[w] < Len(Assigned(w))
            THEN /\ candidate' = [candidate EXCEPT ![w] = Assigned(w)[it[w] + 1]]
                 /\ it' = [it EXCEPT ![w] = @ + 1]
                 /\ wpc' = [wpc EXCEPT ![w] = "post"]
            ELSE /\ wpc' = [wpc EXCEPT ![w] = "exhausted"]
                 /\ UNCHANGED <<candidate, it>>
    /\ UNCHANGED <<server_vars, inputs, logging_vars, mono_vars, sent, main_vars, found_event, result_queue,
                   attempts, late, probed, set_calls, rainbow_vars>>

\* Lines 104-107: the for loop takes the next item of the iterator, or ends
\* (line 125); with an item in hand the worker polls the flag. Taking the
\* item touches only the worker's own iterator, so both are one step.
WorkerLoop(w) ==
    /\ variant = "attack"
    /\ wpc[w] = "loop"
    /\ IF it[w] < Len(Assigned(w))
       THEN /\ candidate' = [candidate EXCEPT ![w] = Assigned(w)[it[w] + 1]]
            /\ it' = [it EXCEPT ![w] = @ + 1]
            /\ wpc' = [wpc EXCEPT ![w] = IF is_set(found_event)
                                          THEN "cancelled" ELSE "post"]
       ELSE /\ wpc' = [wpc EXCEPT ![w] = "exhausted"]
            /\ UNCHANGED <<candidate, it>>
    /\ UNCHANGED <<server_vars, inputs, logging_vars, mono_vars, sent, main_vars, found_event, result_queue, attempts,
                   late, probed, set_calls, rainbow_vars>>

WorkerPostNoCountOnError(w) ==
    /\ variant = "attack"
    /\ wpc[w] = "post"
    /\ \E r \in try_post(candidate[w]) :
          /\ wpc' = [wpc EXCEPT ![w] = IF Success(r) THEN "set" ELSE "loop"]
          /\ attempts' = [attempts EXCEPT
                             ![w] = IF r = "None" THEN @ ELSE @ + 1]
    /\ late' = [late EXCEPT ![w] = IF found_event THEN @ + 1 ELSE @]
    /\ probed' = [probed EXCEPT ![w] = Append(@, Position(w, it[w]))]
    /\ UNCHANGED <<server_vars, inputs, logging_vars, mono_vars, sent, main_vars, found_event, result_queue, it,
                   candidate, set_calls, rainbow_vars>>

WorkerPostRetryOnce(w) ==
    /\ variant = "attack"
    /\ wpc[w] = "post"
    /\ \E r \in try_post(candidate[w]) :
          /\ wpc' = [wpc EXCEPT ![w] = IF Success(r) THEN "set" ELSE "loop"]
          /\ it' = [it EXCEPT
                       ![w] = IF r = "None" /\ \A k \in DOMAIN probed[w] :
                                                 probed[w][k] # Position(w, it[w])
                              THEN @ - 1 ELSE @]
    /\ attempts' = [attempts EXCEPT ![w] = @ + 1]
    /\ late' = [late EXCEPT ![w] = IF found_event THEN @ + 1 ELSE @]
    /\ probed' = [probed EXCEPT ![w] = Append(@, Position(w, it[w]))]
    /\ UNCHANGED <<server_vars, inputs, logging_vars, mono_vars, sent, main_vars, found_event, result_queue,
                   candidate, set_calls, rainbow_vars>>

\* Lines 109-114: one request, attempts += 1, the test of the response.
WorkerPost(w) ==
    /\ variant = "attack"
    /\ wpc[w] = "post"
    /\ \E r \in try_post(candidate[w]) :
          wpc' = [wpc EXCEPT ![w] = IF Success(r) THEN "set" ELSE "loop"]
    /\ attempts' = [attempts EXCEPT ![w] = @ + 1]
    /\ late' = [late EXCEPT ![w] = IF found_event THEN @ + 1 ELSE @]
    /\ probed' = [probed EXCEPT ![w] = Append(@, Position(w, it[w]))]
    /\ UNCHANGED <<server_vars, inputs, logging_vars, mono_vars, sent, main_vars, found_event, result_queue, it, candidate,
                   set_calls, rainbow_vars>>

WorkerSetNoPut(w) ==
    /\ variant = "attack"
    /\ wpc[w] = "set"
    /\ found_event' = EventSet(found_event)
    /\ set_calls' = set_calls + 1
    /\ wpc' = [wpc EXCEPT ![w] = "found"]
    /\ UNCHANGED <<server_vars, inputs, logging_vars, mono_vars, sent, main_vars, result_queue, it, candidate,
                   attempts, late, probed, rainbow_vars>>

\* Line 116: found_event.set()
WorkerSet(w) ==
    /\ variant = "attack"
    /\ wpc[w] = "set"
    /\ found_event' = EventSet(found_event)
    /\ set_calls' = set_calls + 1
    /\ wpc' = [wpc EXCEPT ![w] = "put"]
    /\ UNCHANGED <<server_vars, inputs, logging_vars, mono_vars, sent, main_vars, result_queue, it, candidate, attempts,
                   late, probed, rainbow_vars>>

WorkerPutAndGoOn(w) ==
    /\ variant = "attack"
    /\ wpc[w] = "put"
    /\ result_queue' = QueuePut(result_queue, <<w, candidate[w], attempts[w]>>)
    /\ sent' = Append(sent, <<w, candidate[w], attempts[w]>>)
    /\ wpc' = [wpc EXCEPT ![w] = "loop"]
    /\ UNCHANGED <<server_vars, inputs, logging_vars, mono_vars, main_vars, found_event, it, candidate, attempts,
                   late, probed, set_calls, rainbow_vars>>

\* Lines 117-119: result_queue.put(...), return.
WorkerPut(w) ==
    /\ variant = "attack"
    /\ wpc[w] = "put"
    /\ result_queue' = QueuePut(result_queue, <<w, candidate[w], attempts[w]>>)
    /\ sent' = Append(sent, <<w, candidate[w], attempts[w]>>)
    /\ wpc' = [wpc EXCEPT ![w] = "found"]
    /\ UNCHANGED <<server_vars, inputs, logging_vars, mono_vars, main_vars, found_event, it, candidate, attempts,
                   late, probed, set_calls, rainbow_vars>>

Worker(w) ==
    \/ WorkerBuild(w)
    \/ WorkerLoop(w)
    \/ WorkerPost(w)
    \/ WorkerSet(w)
    \/ WorkerPut(w)

-----------------------------------------------------------------------------
\* parallel_rainbow_attack.main()

\* Lines 122-151: the database must exist; inputs are loaded, the queue made.
RainbowParse ==
    /\ variant = "rainbow"
    /\ mpc = "parse"
    /\ IF ~args.db_exists
       THEN /\ mpc' = "done"
            /\ rc' = {EXIT_CONFIG}
            /\ UNCHANGED <<result_queue, i>>
       ELSE /\ mpc' = "spawn"
            /\ result_queue' = <<>>
            /\ i' = 0
            /\ UNCHANGED rc
    /\ UNCHANGED <<server_vars, inputs, logging_vars, mono_vars, sent, interrupted, found_event, received, report, wpc, it,
                   candidate, attempts, late, probed, set_calls, rainbow_vars>>

\* Lines 153-171: one iteration of the loop that starts the workers; after
\* it the counters of the collection loop are initialised.
RainbowSpawn ==
    /\ variant = "rainbow"
    /\ mpc = "spawn"
    /\ IF i \in Workers
       THEN /\ wpc' = [wpc EXCEPT ![i] = "build"]
            /\ i' = i + 1
            /\ UNCHANGED <<mpc, workers_done, total_found, total_not_found,
                           cracked_passwords>>
       ELSE /\ mpc' = "collect"
            /\ total_found' = 0
            /\ total_not_found' = 0
            /\ workers_done' = 0
            /\ cracked_passwords' = <<>>
            /\ UNCHANGED <<i, wpc>>
    /\ UNCHANGED <<server_vars, inputs, logging_vars, mono_vars, sent, interrupted, found_event, result_queue, received,
                   rc, report, it, candidate, attempts, late, probed, set_calls, found,
                   not_found>>

\* Lines 173-184: one iteration of the collection loop (get blocks on an
\* empty queue), or its end.
RainbowCollect ==
    /\ variant = "rainbow"
    /\ mpc = "collect"
    /\ IF workers_done < args.workers
       THEN /\ ~QueueEmpty(result_queue)
            /\ LET result == Head(result_queue) IN
                 /\ result_queue' = Tail(result_queue)
                 /\ received' = received + 1
                 /\ cracked_passwords' =
                        IF result.status = "CRACKED"
                        THEN Append(cracked_passwords,
                                    <<result.username, result.password>>)
                        ELSE cracked_passwords
                 /\ IF result.status = "DONE"
                    THEN /\ total_found' = total_found + result.found
                         /\ total_not_found' =
                                total_not_found + result.not_found
                         /\ workers_done' = workers_done + 1
                    ELSE UNCHANGED <<total_found, total_not_found,
                                     workers_done>>
            /\ UNCHANGED <<mpc, i>>
       ELSE /\ mpc' = "join"
            /\ i' = 0
            /\ UNCHANGED <<result_queue, received, workers_done, total_found,
                           total_not_found, cracked_passwords>>
    /\ UNCHANGED <<server_vars, inputs, logging_vars, mono_vars, sent, interrupted, found_event, rc, report, wpc, it,
                   candidate, attempts, late, probed, set_calls, found, not_found>>

\* Lines 187-210: join every process, print the summary, return 0.
RainbowJoin ==
    /\ variant = "rainbow"
    /\ mpc = "join"
    /\ IF i \in Workers
       THEN /\ wpc[i] \in Exited
            /\ i' = i + 1
            /\ UNCHANGED <<mpc, rc, report>>
       ELSE /\ mpc' = "done"
            /\ rc' = {EXIT_SUCCESS}
            /\ report' = [kind |-> "SUMMARY", found |-> cracked_passwords]
            /\ UNCHANGED i
    /\ UNCHANGED <<server_vars, inputs, logging_vars, mono_vars, sent, interrupted, found_event, result_queue, received,
                   wpc, it, candidate, attempts, late, probed, set_calls, rainbow_vars>>

-----------------------------------------------------------------------------
\* parallel_rainbow_attack.worker_process(worker_id = w, ...)

\* Lines 62-68: the counters and the worker's share of the users.
RainbowWorkerBuild(w) ==
    /\ variant = "rainbow"
    /\ wpc[w] = "build"
    /\ wpc' = [wpc EXCEPT ![w] = "loop"]
    /\ found' = [found EXCEPT ![w] = 0]
    /\ not_found' = [not_found EXCEPT ![w] = 0]
    /\ it' = [it EXCEPT ![w] = 0]
    /\ UNCHANGED <<server_vars, inputs, logging_vars, mono_vars, sent, main_vars, found_event, result_queue, candidate,
                   attempts, late, probed, set_calls, workers_done, total_found,
                   total_not_found, cracked_passwords>>

RainbowWorkerLoopStopAtHit(w) ==
    /\ variant = "rainbow"
    /\ wpc[w] = "loop"
    /\ IF it[w] < Len(my_users(w))
       THEN LET username == my_users(w)[it[w] + 1][1]
                password_plain == my_users(w)[it[w] + 1][2]
                pwd_hash == sha1(password_plain)
                hit == pwd_hash \in DOMAIN rainbow_table
                msg == IF hit
                       THEN [worker_id |-> w, status |-> "CRACKED",
                             username |-> username,
                             password |-> rainbow_table[pwd_hash],
                             hash |-> pwd_hash]
                       ELSE [worker_id |-> w, status |-> "NOT_FOUND",
                             username |-> username, hash |-> pwd_hash]
            IN  /\ it' = [it EXCEPT ![w] =
                            IF hit THEN Len(my_users(w)) ELSE @ + 1]
                /\ result_queue' = QueuePut(result_queue, msg)
                /\ sent' = Append(sent, msg)
                /\ found' = [found EXCEPT ![w] = IF hit THEN @ + 1 ELSE @]
                /\ not_found' =
                       [not_found EXCEPT ![w] = IF hit THEN @ ELSE @ + 1]
                /\ UNCHANGED wpc
       ELSE LET msg == [worker_id |-> w, status |-> "DONE",
                        found |-> found[w], not_found |-> not_found[w]]
            IN  /\ result_queue' = QueuePut(result_queue, msg)
                /\ sent' = Append(sent, msg)
                /\ wpc' = [wpc EXCEPT ![w] = "done"]
                /\ UNCHANGED <<it, found, not_found>>
    /\ UNCHANGED <<server_vars, inputs, logging_vars, mono_vars, main_vars, found_event, candidate, attempts, late, probed,
                   set_calls, workers_done, total_found, total_not_found,
                   cracked_passwords>>

\* Lines 70-99: one iteration of the loop over my_users (hash, lookup, one
\* message), or after the last one the DONE message and the return.
RainbowWorkerLoop(w) ==
    /\ variant = "rainbow"
    /\ wpc[w] = "loop"
    /\ IF it[w] < Len(my_users(w))
       THEN LET username == my_users(w)[it[w] + 1][1]
                password_plain == my_users(w)[it[w] + 1][2]
                pwd_hash == sha1(password_plain)
                hit == pwd_hash \in DOMAIN rainbow_table
                msg == IF hit
                       THEN [worker_id |-> w, status |-> "CRACKED",
                             username |-> username,
                             password |-> rainbow_table[pwd_hash],
                             hash |-> pwd_hash]
                       ELSE [worker_id |-> w, status |-> "NOT_FOUND",
                             username |-> username, hash |-> pwd_hash]
            IN  /\ it' = [it EXCEPT ![w] = @ + 1]
                /\ result_queue' = QueuePut(result_queue, msg)
                /\ sent' = Append(sent, msg)
                /\ found' = [found EXCEPT ![w] = IF hit THEN @ + 1 ELSE @]
                /\ not_found' =
                       [not_found EXCEPT ![w] = IF hit THEN @ ELSE @ + 1]
                /\ UNCHANGED wpc
       ELSE LET msg == [worker_id |-> w, status |-> "DONE",
                        found |-> found[w], not_found |-> not_found[w]]
            IN  /\ result_queue' = QueuePut(result_queue, msg)
                /\ sent' = Append(sent, msg)
                /\ wpc' = [wpc EXCEPT ![w] = "done"]
                /\ UNCHANGED <<it, found, not_found>>
    /\ UNCHANGED <<server_vars, inputs, logging_vars, mono_vars, main_vars, found_event, candidate, attempts, late, probed,
                   set_calls, workers_done, total_found, total_not_found,
                   cracked_passwords>>

RainbowWorker(w) ==
    \/ RainbowWorkerBuild(w)
    \/ RainbowWorkerLoop(w)

-----------------------------------------------------------------------------
Next ==
    \/ ParseArgs
    \/ Spawn
    \/ Join
    \/ Interrupt
    \/ InterruptSet
    \/ InterruptTerminate
    \/ Report
    \/ \E w \in Workers : Worker(w)
    \/ RainbowParse
    \/ RainbowSpawn
    \/ RainbowCollect
    \/ RainbowJoin
    \/ \E w \in Workers : RainbowWorker(w)

Spec == Init /\ [][Next]_vars

\* The steps of main() of the attack coordinator, the KeyboardInterrupt
\* apart (it comes from outside and need not come).
Main ==
    \/ ParseArgs
    \/ Spawn
    \/ Join
    \/ InterruptSet
    \/ InterruptTerminate
    \/ Report

\* The attack coordinator alone.
NextAttack ==
    \/ Main
    \/ Interrupt
    \/ \E w \in Workers : Worker(w)

\* Its inputs and state before main() starts.
InitFair ==
    InitAttack /\ InitCommon /\ InitNoServer /\ InitNoLogging /\ InitNoMono

\* Its runs under fair scheduling: main() and every started worker are
\* processes of their own (multiprocessing.Process, lines 199-206), each of
\* which goes on running as long as it has a step to take.

SpecFair ==
    /\ InitFair
    /\ [][NextAttack]_vars
    /\ WF_vars(Main)
    /\ \A w \in 0 .. (MaxWorkers - 1) : WF_vars(w \in Workers /\ Worker(w))

\* A worker process of either program dies before it returns (killed by the
\* system, or an exception no handler of worker_process catches): it runs no
\* further line.
Running == {"build", "loop", "post", "set", "put"}
Crash(w) ==
    /\ wpc[w] \in Running
    /\ wpc' = [wpc EXCEPT ![w] = "crashed"]
    /\ UNCHANGED <<server_vars, inputs, logging_vars, mono_vars, sent, main_vars, found_event, result_queue, it,
                   candidate, attempts, late, probed, set_calls, rainbow_vars>>

\* Runs in which worker processes may die.
NextCrash ==
    \/ Next
    \/ \E w \in Workers : Crash(w)

SpecCrash == Init /\ [][NextCrash]_vars

-----------------------------------------------------------------------------
\* server/secure_server.py login() with defense/counter.py, defense/delay.py

\* Configuration of defense/counter.py and defense/delay.py.
MAX_FAILED_ATTEMPTS == 5
LOCKOUT_DURATION_SECONDS == 300
LINEAR_DELAY_SECONDS == 1
PROGRESSIVE_DELAY_BASE == 1
PROGRESSIVE_DELAY_MULTIPLIER == 2

\* Configuration of secure_server.py (lines 36-40), at its defaults.
DEFENSE_MODE == "progressive"
ENABLE_DELAY == TRUE
ENABLE_COUNTER == TRUE
ENABLE_CAPTCHA == TRUE

\* bcrypt.hashpw and bcrypt.checkpw on the passwords of the model.
hashpw(p) == "bcrypt:" \o p
checkpw(p, h) == hashpw(p) = h

\* What a client may send as password: the user's password or another one.
Guesses == {"secret", "guess"}

\* The one row of the users table, and a username that has none.
USERNAME == "user"
Usernames == {USERNAME, "nobody"}

\* The credentials a request may carry: any guess for the user, a wrong
\* guess for the unknown name.
Credentials ==
    {c \in Usernames \X Guesses : c[1] # USERNAME => c[2] # "secret"}

\* `row = cur.fetchone()`: only the user has a row.
HasRow(username) == username = USERNAME

\* delay.py get_failed_attempts (lines 27-38): 0 when there is no row.
get_failed_attempts(username) ==
    IF HasRow(username) THEN failed_attempts ELSE 0

InitServer ==
    /\ variant = "server"
    /\ args = [workers |-> 0]
    /\ password = "secret"
    /\ net_ok = TRUE
    /\ users = <<>>
    /\ rainbow_table = <<>>
    /\ InitCommon
    /\ InitNoServer
    /\ InitNoLogging
    /\ InitNoMono

\* The clock advances: by a second, or to the end of the lockout.
Tick ==
    /\ variant = "server"
    /\ ticks < MaxTicks
    /\ ticks' = ticks + 1
    /\ now' \in {now + 1} \cup
                (IF locked_until > now THEN {locked_until} ELSE {})
    /\ UNCHANGED <<inputs, logging_vars, mono_vars, coordinator_vars, requests, failed_attempts,
                   locked_until, rpc, req, new_count, delay, last, overlapped,
                   streak>>

\* `return jsonify(...), status`: the handler thread of client r is idle
\* again, its local variables are gone.
Respond(r, status) ==
    /\ last' = [client |-> r, password |-> req[r].password,
                captcha |-> req[r].captcha, delay |-> delay[r],
                status |-> status]
    /\ rpc' = [rpc EXCEPT ![r] = "idle"]
    /\ req' = [req EXCEPT ![r] = NoRequest]
    /\ delay' = [delay EXCEPT ![r] = 0]
    /\ new_count' = [new_count EXCEPT ![r] = 0]

\* Lines 76-88: a request arrives at an idle handler thread; one without
\* username or password is answered 400 at once.
LoginStart(r) ==
    /\ variant = "server"
    /\ rpc[r] = "idle"
    /\ requests < MaxRequests
    /\ requests' = requests + 1
    /\ \/ \E up \in Credentials, c \in BOOLEAN :
             /\ req' = [req EXCEPT ![r] = [username |-> up[1],
                                           password |-> up[2],
                                           captcha |-> c]]
             /\ rpc' = [rpc EXCEPT ![r] = "lock"]
             /\ overlapped' =
                    (overlapped \/ \E q \in Clients \ {r} : rpc[q] # "idle")
             /\ UNCHANGED <<last, delay, new_count>>
       \/ /\ Respond(r, 400)
          /\ UNCHANGED overlapped
    /\ UNCHANGED <<inputs, logging_vars, mono_vars, coordinator_vars, now, ticks, failed_attempts,
                   locked_until, streak>>

LoginLockCheckNoLock(r) ==
    /\ variant = "server"
    /\ rpc[r] = "lock"
    /\ rpc' = [rpc EXCEPT ![r] = "delay"]
    /\ UNCHANGED <<inputs, logging_vars, mono_vars, coordinator_vars, now, ticks, requests, failed_attempts,
                   locked_until, req, new_count, delay, last, overlapped,
                   streak>>

\* Lines 91-96 with is_account_locked lines 25-43: the row is read; without
\* a row the account is not locked, a lock in the future answers 403, a lock
\* that has expired is to be reset.
LoginLockCheck(r) ==
    /\ variant = "server"
    /\ rpc[r] = "lock"
    /\ IF ENABLE_COUNTER /\ HasRow(req[r].username) /\ locked_until > 0
       THEN IF now < locked_until
            THEN Respond(r, 403)
            ELSE /\ rpc' = [rpc EXCEPT ![r] = "lock_reset"]
                 /\ UNCHANGED <<req, new_count, delay, last>>
       ELSE /\ rpc' = [rpc EXCEPT ![r] = "delay"]
            /\ UNCHANGED <<req, new_count, delay, last>>
    /\ UNCHANGED <<inputs, logging_vars, mono_vars, coordinator_vars, now, ticks, requests, failed_attempts,
                   locked_until, overlapped, streak>>

LoginLockResetKeepsCount(r) ==
    /\ variant = "server"
    /\ rpc[r] = "lock_reset"
    /\ locked_until' = 0
    /\ rpc' = [rpc EXCEPT ![r] = "delay"]
    /\ UNCHANGED <<inputs, logging_vars, mono_vars, coordinator_vars, now, ticks, requests, failed_attempts,
                   req, new_count, delay, last, overlapped, streak>>

\* is_account_locked line 40: reset_failed_attempts (lines 73-83).
LoginLockReset(r) ==
    /\ variant = "server"
    /\ rpc[r] = "lock_reset"
    /\ failed_attempts' = 0
    /\ locked_until' = 0
    /\ streak' = 0
    /\ rpc' = [rpc EXCEPT ![r] = "delay"]
    /\ UNCHANGED <<inputs, logging_vars, mono_vars, coordinator_vars, now, ticks, requests, req, new_count,
                   delay, last, overlapped>>

LoginDelayAfterCount(r) ==
    /\ variant = "server"
    /\ rpc[r] = "delay"
    /\ delay' = [delay EXCEPT ![r] =
                    PROGRESSIVE_DELAY_BASE
                        * PROGRESSIVE_DELAY_MULTIPLIER ^ (failed_attempts + 1)]
    /\ rpc' = [rpc EXCEPT ![r] = "captcha"]
    /\ UNCHANGED <<inputs, logging_vars, mono_vars, coordinator_vars, now, ticks, requests, failed_attempts,
                   locked_until, req, new_count, last, overlapped, streak>>

LoginDelayAfterCaptcha(r) ==
    /\ variant = "server"
    /\ rpc[r] = "delay"
    /\ IF ENABLE_CAPTCHA /\ ~req[r].captcha
       THEN Respond(r, 400)
       ELSE /\ delay' = [delay EXCEPT ![r] =
                           PROGRESSIVE_DELAY_BASE
                               * PROGRESSIVE_DELAY_MULTIPLIER ^ failed_attempts]
            /\ rpc' = [rpc EXCEPT ![r] = "captcha"]
            /\ UNCHANGED <<req, new_count, last>>
    /\ UNCHANGED <<inputs, logging_vars, mono_vars, coordinator_vars, now, ticks, requests, failed_attempts,
                   locked_until, overlapped, streak>>

\* Lines 99-103 with delay.py lines 41-50: the counter is read, the delay
\* computed from it and slept.
LoginDelay(r) ==
    /\ variant = "server"
    /\ rpc[r] = "delay"
    /\ delay' = [delay EXCEPT ![r] =
                    IF ~ENABLE_DELAY THEN 0
                    ELSE IF DEFENSE_MODE = "linear" THEN LINEAR_DELAY_SECONDS
                    ELSE PROGRESSIVE_DELAY_BASE
                             * PROGRESSIVE_DELAY_MULTIPLIER
                                   ^ get_failed_attempts(req[r].username)]
    /\ rpc' = [rpc EXCEPT ![r] = "captcha"]
    /\ UNCHANGED <<inputs, logging_vars, mono_vars, coordinator_vars, now, ticks, requests, failed_attempts,
                   locked_until, req, new_count, last, overlapped, streak>>

LoginCaptchaCountsFailure(r) ==
    /\ variant = "server"
    /\ rpc[r] = "captcha"
    /\ rpc' = [rpc EXCEPT ![r] = IF ENABLE_CAPTCHA /\ ~req[r].captcha
                                  THEN "inc_read" ELSE "password"]
    /\ UNCHANGED <<inputs, logging_vars, mono_vars, coordinator_vars, now, ticks, requests, failed_attempts,
                   locked_until, req, new_count, delay, last, overlapped,
                   streak>>

\* Lines 106-111: the reCAPTCHA verdict; 400 when it is not valid.
LoginCaptcha(r) ==
    /\ variant = "server"
    /\ rpc[r] = "captcha"
    /\ IF ENABLE_CAPTCHA /\ ~req[r].captcha
       THEN Respond(r, 400)
       ELSE /\ rpc' = [rpc EXCEPT ![r] = "password"]
            /\ UNCHANGED <<req, new_count, delay, last>>
    /\ UNCHANGED <<inputs, logging_vars, mono_vars, coordinator_vars, now, ticks, requests, failed_attempts,
                   locked_until, overlapped, streak>>

\* Lines 113-121: the stored hash is read and the password checked.
LoginPassword(r) ==
    /\ variant = "server"
    /\ rpc[r] = "password"
    /\ rpc' = [rpc EXCEPT ![r] =
                  IF /\ HasRow(req[r].username)
                     /\ checkpw(req[r].password, hashpw(password))
                  THEN "reset" ELSE "inc_read"]
    /\ UNCHANGED <<inputs, logging_vars, mono_vars, coordinator_vars, now, ticks, requests, failed_attempts,
                   locked_until, req, new_count, delay, last, overlapped,
                   streak>>

\* Lines 122-131: successful login, reset_failed_attempts, 200.
LoginSuccess(r) ==
    /\ variant = "server"
    /\ rpc[r] = "reset"
    /\ IF ENABLE_COUNTER
       THEN /\ failed_attempts' = 0
            /\ locked_until' = 0
            /\ streak' = 0
       ELSE UNCHANGED <<failed_attempts, locked_until, streak>>
    /\ Respond(r, 200)
    /\ UNCHANGED <<inputs, logging_vars, mono_vars, coordinator_vars, now, ticks, requests, overlapped>>

LoginIncReadAnyRow(r) ==
    /\ variant = "server"
    /\ rpc[r] = "inc_read"
    /\ new_count' = [new_count EXCEPT ![r] = failed_attempts + 1]
    /\ rpc' = [rpc EXCEPT ![r] = "inc_write"]
    /\ UNCHANGED <<inputs, logging_vars, mono_vars, coordinator_vars, now, ticks, requests, failed_attempts,
                   locked_until, req, delay, last, overlapped, streak>>

\* Lines 136-137 with increment_failed_attempts lines 52-57: the counter is
\* read and new_count computed; without a row the function returns at once
\* and login() answers 401 (lines 138-140).
LoginIncRead(r) ==
    /\ variant = "server"
    /\ rpc[r] = "inc_read"
    /\ IF HasRow(req[r].username)
       THEN /\ new_count' = [new_count EXCEPT ![r] = failed_attempts + 1]
            /\ rpc' = [rpc EXCEPT ![r] = "inc_write"]
            /\ UNCHANGED <<req, delay, last>>
       ELSE Respond(r, 401)
    /\ UNCHANGED <<inputs, logging_vars, mono_vars, coordinator_vars, now, ticks, requests, failed_attempts,
                   locked_until, overlapped, streak>>

LoginIncWriteNoLock(r) ==
    /\ variant = "server"
    /\ rpc[r] = "inc_write"
    /\ failed_attempts' = new_count[r]
    /\ locked_until' = 0
    /\ streak' = streak + 1
    /\ Respond(r, 401)
    /\ UNCHANGED <<inputs, logging_vars, mono_vars, coordinator_vars, now, ticks, requests, overlapped>>

\* increment_failed_attempts lines 58-68, then lines 138-140: the lockout
\* when new_count reaches the threshold, the UPDATE, 401.
LoginIncWrite(r) ==
    /\ variant = "server"
    /\ rpc[r] = "inc_write"
    /\ failed_attempts' = new_count[r]
    /\ locked_until' = IF new_count[r] >= MAX_FAILED_ATTEMPTS
                       THEN now + LOCKOUT_DURATION_SECONDS ELSE 0
    /\ streak' = streak + 1
    /\ Respond(r, 401)
    /\ UNCHANGED <<inputs, logging_vars, mono_vars, coordinator_vars, now, ticks, requests, overlapped>>

Login(r) ==
    \/ LoginStart(r)
    \/ LoginLockCheck(r)
    \/ LoginLockReset(r)
    \/ LoginDelay(r)
    \/ LoginCaptcha(r)
    \/ LoginPassword(r)
    \/ LoginSuccess(r)
    \/ LoginIncRead(r)
    \/ LoginIncWrite(r)

NextServer ==
    \/ Tick
    \/ \E r \in Clients : Login(r)

SpecServer == InitServer /\ [][NextServer]_vars

-----------------------------------------------------------------------------
\* Vocabulary of the properties.

\* The sequence the workers share out: the candidates, or the users.
Items == IF variant = "attack" THEN Candidates ELSE users

\* The share of worker w, as the code takes it.
Part(w) == islice(Items, w, args.workers)

\* islice on the positions of every prefix, for every worker and number of
\* workers of the model, computed once.
TakesTable ==
    [m \in 0 .. MaxCandidates, w \in 0 .. (MaxWorkers - 1), k \in 1 .. MaxWorkers
        |-> islice(Positions(m), w, k)]

\* The positions worker w takes of a prefix of length m.
Takes(m, w) == TakesTable[m, w, args.workers]

\* The positions taken by workers w, w+1, ..., num_workers-1 of a prefix of
\* length m, one worker's after the other's.
RECURSIVE AllTaken(_, _)
AllTaken(m, w) ==
    IF w >= args.workers THEN <<>>
    ELSE Takes(m, w) \o AllTaken(m, w + 1)

\* The request for the candidate at position p always / never succeeds:
\* the server answers 200 and no request is lost / the server never does.
Succeeds(p) == net_ok /\ Server(Candidates[p + 1]) = "200"
Fails(p) == Server(Candidates[p + 1]) # "200"
CandidatePositions == 0 .. (Len(Candidates) - 1)

RECURSIVE SumOver(_, _)
SumOver(f, S) ==
    IF S = {} THEN 0
    ELSE LET x == CHOOSE y \in S : TRUE IN f[x] + SumOver(f, S \ {x})

\* A run of the attack coordinator with a usable configuration that ended
\* without a KeyboardInterrupt.
AttackRunEnded ==
    /\ variant = "attack"
    /\ mpc = "done"
    /\ ~interrupted
    /\ rc # {EXIT_CONFIG}
    /\ CanBuild
    /\ args.workers >= 1

\* The attempt counts the final report carries.
ReportedAttempts == {report.found[j][3] : j \in DOMAIN report.found}

\* Number of messages worker w has put.
PutBy(w) ==
    Cardinality({j \in DOMAIN sent :
                    IF variant = "attack" THEN sent[j][1] = w
                    ELSE sent[j].worker_id = w})

-----------------------------------------------------------------------------
\* C1: for every num_workers k >= 1 and every prefix of length m of the
\* shared sequence (candidates of the attack, users of the rainbow attack),
\* the positions taken by workers 0..k-1 (worker w takes w, w+k, w+2k, ...)
\* contain every position 0..m-1 exactly once (together they are m positions
\* and every position of the prefix is among them), and the share each worker
\* iterates is the items at exactly those positions.
C1_PartitionCompleteDisjoint ==
    args.workers >= 1 =>
        /\ \A m \in 0 .. Len(Items) :
              LET T == AllTaken(m, 0)
              IN  /\ Len(T) = m
                  /\ {T[j] : j \in 1 .. Len(T)} = 0 .. (m - 1)
        /\ \A w \in Workers :
              LET share == Part(w)
                  taken == Takes(Len(Items), w)
              IN  /\ Len(share) = Len(taken)
                  /\ \A j \in 1 .. Len(share) :
                        /\ share[j] = Items[taken[j] + 1]
                        /\ taken[j] = w + (j - 1) * args.workers

C1_Witness ==
    /\ variant = "attack"
    /\ args.workers = 2
    /\ Len(Items) >= 5
    /\ \A w \in Workers : it[w] = Len(Part(w)) /\ it[w] >= 2

\* C2: if exactly one position of the candidate sequence makes the request
\* succeed, an uninterrupted run with k >= 1 workers ends with exit status 0
\* and a SUCCESS report carrying exactly that candidate, put by the worker
\* that owns the position.
C2_SingleWinner ==
    \A p \in (IF AttackRunEnded THEN CandidatePositions ELSE {}) :
        (Succeeds(p) /\ \A q \in CandidatePositions \ {p} : Fails(q)) =>
            /\ rc = {EXIT_SUCCESS}
            /\ report.kind = "SUCCESS"
            /\ Len(report.found) = 1
            /\ report.found[1][2] = Candidates[p + 1]
            /\ report.found[1][1] = p % args.workers

C2_Witness ==
    /\ AttackRunEnded
    /\ args.workers = 2
    /\ \E p \in CandidatePositions :
          /\ Succeeds(p) /\ \A q \in CandidatePositions \ {p} : Fails(q)
          /\ p >= 2
          /\ report.found = <<<<1, Candidates[p + 1], attempts[1]>>>>
          /\ wpc[0] = "cancelled"

C4_CancellationBound ==
    /\ [](\A w \in Workers : late[w] <= 1)
    /\ [][\A w \in Workers :
             wpc[w] = "cancelled" =>
                 wpc'[w] = "cancelled" /\ attempts'[w] = attempts[w]]_vars

C4_Witness ==
    \E w \in Workers :
        /\ late[w] = 1
        /\ wpc[w] = "cancelled"
        /\ it[w] < Len(Part(w))

\* C5: when two or more workers put a Found message (each saw a successful
\* request before seeing the flag), the coordinator of an uninterrupted run
\* reports exactly one winner, the first message that arrived on the queue;
\* the later ones stay on the queue and are never reported.
C5_TieBreakFirstMessage ==
    (AttackRunEnded /\ Len(sent) >= 2) =>
        /\ report.kind = "SUCCESS"
        /\ report.found = <<sent[1]>>
        /\ result_queue = Tail(sent)
        /\ received = 1

C5_Witness ==
    /\ AttackRunEnded
    /\ Len(sent) = 2
    /\ sent[1][1] = 1
    /\ report.found = <<sent[1]>>
    /\ wpc = [w \in Workers |-> "found"]

\* C6: a found_event.set() on a flag that is already set changes nothing but
\* the caller's position (the flag, the queue, the other workers' and the
\* coordinator's state stay as they are), and an uninterrupted run in which
\* the flag was set twice or more still reports exactly one winner.
C6_IdempotentFlag ==
    /\ [][(found_event /\ set_calls' = set_calls + 1) =>
             /\ found_event' = found_event
             /\ UNCHANGED <<result_queue, sent, received, report, rc, it,
                            candidate, attempts, late>>]_vars
    /\ []((AttackRunEnded /\ set_calls >= 2) =>
             /\ found_event
             /\ rc = {EXIT_SUCCESS}
             /\ report.kind = "SUCCESS"
             /\ Len(report.found) = 1)

C6_Witness ==
    /\ AttackRunEnded
    /\ set_calls = 2
    /\ found_event
    /\ report.kind = "SUCCESS"

\* C7: found_event is unset when the run starts, once set it stays set, and
\* it becomes set only by a worker whose request succeeded (line 116) or by
\* the coordinator's KeyboardInterrupt handler (line 216).
C7_FlagMonotonic ==
    /\ [](mpc = "parse" => ~found_event)
    /\ [][found_event => found_event']_vars
    /\ [][(~found_event /\ found_event') =>
             \/ \E w \in Workers :
                   /\ wpc[w] = "set" /\ wpc'[w] = "put"
                   /\ Success(Server(candidate[w]))
             \/ mpc = "intr_set" /\ mpc' = "intr_term" /\ interrupted]_vars

C7_Witness ==
    /\ variant = "attack"
    /\ mpc = "done"
    /\ interrupted
    /\ set_calls = 3
    /\ found_event

C10_InvalidWorkerCountRejected ==
    (args.workers <= 0 /\ mpc = "done") =>
        /\ rc = {EXIT_CONFIG}
        /\ report = NoReport

\* The four configurations that lack a parameter their mode requires.
MissingModeParameter ==
    \/ args.mode = "mono" /\ args.alphabet = "None"
    \/ args.mode = "mono" /\ args.alphabet = "custom" /\ args.custom = <<>>
    \/ args.mode = "poly" /\ ~args.digits
    \/ args.mode = "dict" /\ args.list = ""

\* C11: a run of the attack coordinator whose mode lacks a required parameter
\* (mono without alphabet, mono custom without custom string, poly without a
\* flag, dict without wordlist) never starts a worker process and ends, if it
\* ends, with exit status 2.
C11_MissingParameterRejected ==
    (variant = "attack" /\ MissingModeParameter) =>
        /\ \A w \in Workers : wpc[w] = "idle"
        /\ rc \subseteq {EXIT_CONFIG}

BlockedOnGet ==
    /\ variant = "rainbow"
    /\ mpc = "collect"
    /\ workers_done < args.workers
    /\ QueueEmpty(result_queue)
    /\ \A w \in Workers : wpc[w] \in Exited

\* C13: when a worker dies without its terminal message the coordinator
\* (attack and rainbow) is never left waiting on the result queue for good,
\* and the report of a run that ended marks that worker as crashed.
C13_CrashNeitherHangsNorHides ==
    /\ ~BlockedOnGet
    /\ (mpc = "done" /\ rc # {EXIT_INTERRUPTED}) =>
          \A w \in Workers :
              wpc[w] = "crashed" =>
                  /\ report.kind = "CRASHED"
                  /\ \E j \in DOMAIN report.found : report.found[j] = w

\* The configurations the coordinator is to reject: a worker count below 1
\* or a mode that lacks a required parameter.
InvalidConfiguration == args.workers <= 0 \/ MissingModeParameter

\* C14: a run of the attack coordinator ends with exactly one of the statuses
\* 0, 1, 2, 130: 2 exactly on an invalid configuration, 130 exactly on an
\* interruption, 0 exactly when a found password is reported, 1 exactly when
\* the run completes otherwise.
C14_ExitStatus ==
    (variant = "attack" /\ mpc = "done") =>
        /\ rc \in {{EXIT_SUCCESS}, {EXIT_NOT_FOUND}, {EXIT_CONFIG},
                   {EXIT_INTERRUPTED}}
        /\ rc = {EXIT_CONFIG} <=> InvalidConfiguration
        /\ rc = {EXIT_INTERRUPTED} <=> (interrupted /\ ~InvalidConfiguration)
        /\ rc = {EXIT_SUCCESS} <=> report.kind = "SUCCESS"
        /\ rc = {EXIT_NOT_FOUND} <=>
              (~InvalidConfiguration /\ ~interrupted /\ report.kind # "SUCCESS")

\* The run of the scenario: --mode mono --alphabet custom --custom 01
\* --max-len 2 --workers 2 against an account whose password is "10", every
\* request answered.
Scenario01 ==
    /\ variant = "attack"
    /\ args.mode = "mono"
    /\ args.alphabet = "custom"
    /\ args.custom = <<"0", "1">>
    /\ args.max_len = 2
    /\ args.workers = 2
    /\ password = "10"
    /\ net_ok

\* C15: in the scenario the candidate sequence is "0","1","00","01","10","11"
\* and the request succeeds for "10" only; the workers' attempts never sum to
\* more than 6; a run that ends without interruption ends with exit status 0
\* and the report SUCCESS: "10" found by worker 0 (on its 3rd attempt); a
\* worker that has read the flag as set starts no request any more.
C15_Scenario01 ==
    /\ [](Scenario01 =>
             /\ Candidates = <<"0", "1", "00", "01", "10", "11">>
             /\ {c \in {Candidates[j] : j \in DOMAIN Candidates} :
                    Server(c) = "200"} = {"10"}
             /\ attempts[0] + attempts[1] <= 6
             /\ (mpc = "done" /\ ~interrupted) =>
                   /\ rc = {EXIT_SUCCESS}
                   /\ report = [kind |-> "SUCCESS",
                                found |-> << <<0, "10", 3>> >>])
    /\ [][Scenario01 =>
             \A w \in Workers :
                 wpc[w] = "cancelled" =>
                     /\ wpc'[w] = "cancelled"
                     /\ attempts'[w] = attempts[w]
                     /\ candidate'[w] = candidate[w]]_vars

C15_Witness ==
    /\ Scenario01
    /\ mpc = "done"
    /\ report.kind = "SUCCESS"
    /\ wpc[1] = "cancelled"
    /\ attempts[0] + attempts[1] = 5

\* The per-item messages (CRACKED, NOT_FOUND) worker w has put, in order.
ItemMessages(w) ==
    LET mine(m) == m.worker_id = w /\ m.status # "DONE"
    IN  SelectSeq(sent, mine)

\* The verdict the worker computes for one user record (lines 72-74).
Verdict(user) ==
    IF sha1(user[2]) \in DOMAIN rainbow_table THEN "CRACKED" ELSE "NOT_FOUND"

\* C16: in the rainbow attack with num_workers >= 1 the per-item messages a
\* worker has put are, in order, one per user record of its share that it has
\* processed, CRACKED exactly if the SHA-1 of the record's secret is a key of
\* the table, NOT_FOUND otherwise, whatever was found before; a worker ends
\* only after its whole share; once every worker has ended each user record
\* has exactly one per-item message, put by the worker that owns its position.
C16_RainbowNoEarlyExit ==
    (variant = "rainbow" /\ args.workers >= 1) =>
        /\ \A w \in Workers :
              LET mine == ItemMessages(w)
              IN  /\ Len(mine) = it[w]
                  /\ \A k \in 1 .. Len(mine) :
                        /\ mine[k].username = my_users(w)[k][1]
                        /\ mine[k].status = Verdict(my_users(w)[k])
                  /\ wpc[w] = "done" => it[w] = Len(my_users(w))
        /\ (\A w \in Workers : wpc[w] = "done") =>
              \A j \in 1 .. Len(users) :
                  LET about == {k \in DOMAIN sent :
                                   /\ sent[k].status # "DONE"
                                   /\ sent[k].username = users[j][1]}
                  IN  /\ Cardinality(about) = 1
                      /\ \A k \in about :
                            /\ sent[k].worker_id = (j - 1) % args.workers
                            /\ sent[k].status = Verdict(users[j])

C16_Witness ==
    /\ variant = "rainbow"
    /\ args.workers = 2
    /\ Len(users) = 3
    /\ Verdict(users[1]) = "CRACKED"
    /\ Verdict(users[2]) = "CRACKED"
    /\ Verdict(users[3]) = "NOT_FOUND"
    /\ \A w \in Workers : wpc[w] = "done"
    /\ Len(ItemMessages(0)) = 2
    /\ Len(ItemMessages(1)) = 1

\* The collection loop of the rainbow coordinator (lines 173-184) has ended.
CollectionEnded ==
    /\ variant = "rainbow"
    /\ mpc = "join" \/ report.kind = "SUMMARY"

\* The positions in `sent` of the messages of worker w with a given status.
SentBy(w, status) ==
    {k \in DOMAIN sent : sent[k].worker_id = w /\ sent[k].status = status}

\* C17: a rainbow worker that has ended has sent exactly one DONE message,
\* after all its per-item messages, carrying its numbers of CRACKED and of
\* NOT_FOUND messages; when the collection loop has ended, total_found +
\* total_not_found is the number of users, total_found is the number of
\* CRACKED messages received, and every per-item message sent was received.
C17_RainbowAggregation ==
    /\ variant = "rainbow" =>
          \A w \in Workers :
              wpc[w] = "done" =>
                  /\ Cardinality(SentBy(w, "DONE")) = 1
                  /\ \A d \in SentBy(w, "DONE") :
                        /\ \A k \in DOMAIN sent :
                              sent[k].worker_id = w => k <= d
                        /\ sent[d].found = Cardinality(SentBy(w, "CRACKED"))
                        /\ sent[d].not_found =
                               Cardinality(SentBy(w, "NOT_FOUND"))
    /\ CollectionEnded =>
          /\ total_found + total_not_found = Len(users)
          /\ total_found =
                 Cardinality({k \in 1 .. received : sent[k].status = "CRACKED"})
          /\ \A k \in DOMAIN sent : sent[k].status # "DONE" => k <= received

\* The step of handler r that leaves position pc of login().
Leaves(r, pc) == rpc[r] = pc /\ rpc'[r] # pc

\* The request that handler r works on names the user, who has a row.
ForUser(r) == HasRow(req[r].username)

\* The account is locked now.
Locked == locked_until > 0 /\ now < locked_until

\* C18: while requests are handled one after another, counted from
\* failed_attempts = 0 and no lock, the failed password check that is the
\* 5th in a row (and none before it) sets locked_until, to now + 300, a time
\* in the future; while the account is locked no request for the user is
\* past the lock check, and a request for the user whose lock check runs
\* while the account is locked is answered 403, whatever password and
\* CAPTCHA verdict it carries, and leaves the record as it is.
C18_LockoutAfterFifthFailure ==
    /\ [](~overlapped =>
             /\ streak = failed_attempts
             /\ locked_until > 0 <=> failed_attempts = MAX_FAILED_ATTEMPTS
             /\ Locked => \A r \in Clients :
                              ForUser(r) => rpc[r] \in {"idle", "lock"})
    /\ [][\A r \in Clients :
             /\ (Leaves(r, "inc_write") /\ ~overlapped) =>
                   IF streak' = MAX_FAILED_ATTEMPTS
                   THEN /\ locked_until' = now + LOCKOUT_DURATION_SECONDS
                        /\ locked_until' > now'
                   ELSE /\ streak' < MAX_FAILED_ATTEMPTS
                        /\ locked_until' = 0
             /\ (Leaves(r, "lock") /\ ForUser(r) /\ Locked) =>
                   /\ last' = [client |-> r, password |-> req[r].password,
                               captcha |-> req[r].captcha, delay |-> 0,
                               status |-> 403]
                   /\ rpc'[r] = "idle"
                   /\ UNCHANGED <<failed_attempts, locked_until>>]_vars

C18_Witness ==
    /\ ~overlapped
    /\ streak = MAX_FAILED_ATTEMPTS
    /\ Locked
    /\ last.status = 403
    /\ checkpw(last.password, hashpw(password))
    /\ last.captcha

\* C19: the delay of a login attempt is PROGRESSIVE_DELAY_BASE *
\* PROGRESSIVE_DELAY_MULTIPLIER ^ failed_attempts for the counter as it is
\* when the delay is computed (0 for a name that has no row), before the
\* attempt's own failure is recorded;
\* while requests are handled one after another the n-th failed password
\* check in a row (n = 1..5) was delayed 2^(n-1) seconds and leaves the
\* counter at n.
C19_DelayLagsCounter ==
    [][\A r \in Clients :
          /\ Leaves(r, "delay") =>
                delay'[r] = PROGRESSIVE_DELAY_BASE
                                * PROGRESSIVE_DELAY_MULTIPLIER
                                      ^ (IF ForUser(r) THEN failed_attempts
                                         ELSE 0)
          /\ (Leaves(r, "inc_write") /\ ~overlapped) =>
                /\ streak' \in 1 .. MAX_FAILED_ATTEMPTS
                /\ delay[r] = 2 ^ (streak' - 1)
                /\ last'.delay = delay[r]
                /\ last'.status = 401
                /\ failed_attempts' = streak']_vars

C19_Witness ==
    /\ ~overlapped
    /\ streak = MAX_FAILED_ATTEMPTS
    /\ failed_attempts = MAX_FAILED_ATTEMPTS
    /\ last.status = 401
    /\ last.delay = 16


\* The step of worker w itself that leaves position pc of worker_process()
\* (terminate() by the coordinator is not a step of the worker).
WorkerLeaves(w, pc) ==
    /\ variant = "attack"
    /\ wpc[w] = pc
    /\ wpc'[w] \notin {pc, "terminated"}

\* C20: on every iteration the worker polls found_event before it pulls the
\* next item of its partition: a worker that finds the flag set at the start
\* of an iteration pulls nothing and ends Cancelled, not Exhausted, also when
\* its partition has no item left, and starts no further request.
C20_PollBeforePull ==
    [][\A w \in Workers :
          (WorkerLeaves(w, "loop") /\ is_set(found_event)) =>
              /\ wpc'[w] = "cancelled"
              /\ it'[w] = it[w]
              /\ attempts'[w] = attempts[w]]_vars

\* C20 amended: on every iteration the worker first pulls the next item of
\* its partition and only with an item in hand polls found_event. With no
\* item left it ends Exhausted, whether the flag is set or not; with an item
\* and the flag set it drops the item and ends Cancelled; with an item and
\* the flag clear it goes on to the request for that item. A Cancelled worker
\* starts no further request.
C20_PullBeforePoll ==
    [][\A w \in Workers :
          /\ WorkerLeaves(w, "loop") =>
                /\ attempts'[w] = attempts[w]
                /\ IF it[w] < Len(Assigned(w))
                   THEN /\ it'[w] = it[w] + 1
                        /\ candidate'[w] = Assigned(w)[it[w] + 1]
                        /\ wpc'[w] = IF is_set(found_event)
                                     THEN "cancelled" ELSE "post"
                   ELSE /\ it'[w] = it[w]
                        /\ wpc'[w] = "exhausted"
          /\ (variant = "attack" /\ wpc[w] = "cancelled") =>
                /\ wpc'[w] = "cancelled"
                /\ attempts'[w] = attempts[w]
                /\ it'[w] = it[w]]_vars

\* A worker whose last request ended after the flag was set found its
\* partition empty on the next pull and ended Exhausted with the flag set.
C20_Witness ==
    \E w \in Workers :
        /\ wpc[w] = "exhausted"
        /\ is_set(found_event)
        /\ late[w] = 1
        /\ it[w] = Len(Assigned(w))
        /\ attempts[w] = it[w]


\* The step of worker w in which a request of its ends as a failed attempt:
\* the response is not a 200, or there is no response at all.
FailedAttempt(w) == WorkerLeaves(w, "post") /\ wpc'[w] # "set"

\* C21: a request that ends in a transient error (try_post returns None) is
\* a plain failed attempt of the worker: attempts grows by one, the worker
\* goes back to the head of its loop to take the next item, and no position
\* of the candidate sequence is posted twice by the same worker. A failed
\* request for the password itself can only be a transient error.
C21_TransientErrorIsFailedAttempt ==
    /\ [](variant = "attack" =>
             \A w \in Workers : \A j, k \in DOMAIN probed[w] :
                 j # k => probed[w][j] # probed[w][k])
    /\ [][\A w \in Workers :
             FailedAttempt(w) =>
                 /\ attempts'[w] = attempts[w] + 1
                 /\ wpc'[w] = "loop"
                 /\ it'[w] = it[w]
                 /\ Len(probed'[w]) = Len(probed[w]) + 1
                 /\ UNCHANGED <<found_event, result_queue, sent>>]_vars

\* A worker whose request for the password got no response counted it and
\* went on to post the next item of its partition.
C21_Witness ==
    /\ variant = "attack"
    /\ \E w \in Workers : \E k \in DOMAIN probed[w] :
          /\ k < Len(probed[w])
          /\ Candidates[probed[w][k] + 1] = password
          /\ attempts[w] = Len(probed[w])
          /\ ~found_event


\* C22: worker w posts the candidates at positions w, w + N, w + 2N, ... of
\* the candidate sequence (N = num_workers), in that order: the k-th request
\* of the worker is for position w + (k-1)N, so nothing is skipped and
\* nothing is posted out of order, and the candidate in hand is the one at
\* that position.
C22_IncreasingIndex ==
    variant = "attack" =>
        \A w \in Workers :
            /\ \A k \in DOMAIN probed[w] :
                  probed[w][k] = w + (k - 1) * args.workers
            /\ wpc[w] = "post" =>
                  /\ Len(probed[w]) = it[w] - 1
                  /\ candidate[w] =
                        Candidates[w + (it[w] - 1) * args.workers + 1]
            /\ wpc[w] = "exhausted" =>
                  /\ w + Len(probed[w]) * args.workers >= Len(Candidates)
                  /\ Len(probed[w]) = it[w]

C22_Witness ==
    /\ variant = "attack"
    /\ args.workers = 2
    /\ wpc[1] = "exhausted"
    /\ probed[1] = <<1, 3, 5>>
    /\ Len(probed[0]) >= 2


\* The requests made for position p of the candidate sequence: the pairs
\* <<w, k>> such that the k-th request of worker w was for p.
ProbesOf(p) ==
    {x \in UNION {{<<w, k>> : k \in DOMAIN probed[w]} : w \in Workers} :
        probed[x[1]][x[2]] = p}

\* C23: in every run of the attack coordinator each position of the candidate
\* sequence is posted at most once over all workers, and only by the worker
\* w with position % num_workers = w; when the run has workers and all of
\* them ended Exhausted, each position has been posted exactly once.
C23_EachPositionOnce ==
    variant = "attack" =>
        /\ \A w \in Workers : \A k \in DOMAIN probed[w] :
              /\ probed[w][k] \in CandidatePositions
              /\ probed[w][k] % args.workers = w
        /\ \A p \in CandidatePositions : Cardinality(ProbesOf(p)) <= 1
        /\ (args.workers >= 1 /\ \A w \in Workers : wpc[w] = "exhausted") =>
              \A p \in CandidatePositions : Cardinality(ProbesOf(p)) = 1

C23_Witness ==
    /\ variant = "attack"
    /\ args.workers = 2
    /\ Len(Candidates) >= 5
    /\ \A w \in Workers : wpc[w] = "exhausted"
    /\ \A p \in CandidatePositions : Cardinality(ProbesOf(p)) = 1


\* The states in which worker_process() has returned of its own accord.
Terminal == {"found", "exhausted", "cancelled"}

\* C24: the terminal states of a worker are absorbing. A worker that is
\* Found, Exhausted or Cancelled stays so and makes no further request; a
\* step that sets the flag or puts a message is never the step of such a
\* worker: the flag is set by a worker between its successful request and
\* its put (or by the coordinator's interrupt handler), a message is put by
\* a worker that has just set the flag, and that worker ends Found unless
\* the coordinator terminates it. Exhausted and Cancelled are entered only
\* from the head of the loop, so such a worker has never set the flag.
C24_TerminalStatesAbsorbing ==
    [][variant = "attack" =>
          /\ \A w \in Workers :
                /\ wpc[w] \in Terminal =>
                      /\ wpc'[w] = wpc[w]
                      /\ attempts'[w] = attempts[w]
                      /\ probed'[w] = probed[w]
                      /\ it'[w] = it[w]
                /\ (wpc'[w] \in {"exhausted", "cancelled"}
                        /\ wpc[w] # wpc'[w]) => wpc[w] = "loop"
                /\ wpc[w] = "set" => wpc'[w] \in {"set", "put", "terminated"}
                /\ wpc[w] = "put" => wpc'[w] \in {"put", "found", "terminated"}
          /\ (found_event' # found_event \/ set_calls' # set_calls) =>
                \/ mpc = "intr_set"
                \/ \E w \in Workers : wpc[w] = "set" /\ wpc'[w] = "put"
          /\ (sent' # sent \/ Len(result_queue') > Len(result_queue)) =>
                \E w \in Workers : wpc[w] = "put" /\ wpc'[w] = "found"]_vars

\* A run that ended with one worker Found and another Cancelled; the flag
\* was set once and one message was put.
C24_Witness ==
    /\ variant = "attack"
    /\ mpc = "done"
    /\ \E w, v \in Workers : wpc[w] = "found" /\ wpc[v] = "cancelled"
    /\ set_calls = 1
    /\ Len(sent) = 1


\* C25: the NOT FOUND report (exit status 1) is made only when every worker
\* ended Exhausted, every position of the candidate sequence has been posted
\* and no request succeeded; never when some worker stopped before the end
\* of its share.
C25_NotFoundOnlyAfterExhaustion ==
    (variant = "attack" /\ report.kind = "NOT FOUND") =>
        /\ rc = {EXIT_NOT_FOUND}
        /\ \A w \in Workers : wpc[w] = "exhausted"
        /\ \A p \in CandidatePositions : Cardinality(ProbesOf(p)) = 1
        /\ ~found_event


\* A run of the attack coordinator that has workers to start.
AttackRun == variant = "attack" /\ args.workers >= 1

\* main() has returned; unless it was interrupted or refused the arguments
\* it has made its final report, and every worker has exited.
FinalReport ==
    /\ mpc = "done"
    /\ (~interrupted /\ rc # {EXIT_CONFIG}) =>
          /\ report.kind \in {"SUCCESS", "NOT FOUND"}
          /\ \A w \in Workers : wpc[w] \in Exited

\* C26: with a finite candidate sequence, num_workers >= 1 and requests that
\* always return, under fair scheduling every run of the attack coordinator
\* ends, an uninterrupted one with the final report after every worker has
\* exited; main() reads the result queue only once all workers have exited,
\* and a worker never waits for main(): none of its steps is blocked while
\* it runs.
C26_Termination ==
    /\ <>(AttackRun => FinalReport)
    /\ []((AttackRun /\ mpc \in {"report", "done"} /\ ~interrupted
              /\ rc # {EXIT_CONFIG}) =>
             \A w \in Workers : wpc[w] \in Exited)
    /\ [](AttackRun =>
             \A w \in Workers : wpc[w] \in Running => ENABLED Worker(w))

C26_Witness ==
    /\ AttackRun
    /\ FinalReport
    /\ ~interrupted
    /\ args.workers = 2
    /\ report.kind = "NOT FOUND"
    /\ \A w \in Workers : wpc[w] = "exhausted" /\ attempts[w] >= 2


\* The position of the candidate worker w posted last.
LastProbed(w) == probed[w][Len(probed[w])]

\* C27: the attempt count of a Found message is the number of requests the
\* worker that put it has made, the successful one included; with the
\* winning candidate at position p of the candidate sequence and N workers
\* it is p \div N + 1.
C27_FoundAttemptCount ==
    variant = "attack" =>
        \A j \in DOMAIN sent :
            LET w == sent[j][1]
            IN  /\ w \in Workers
                /\ probed[w] # <<>>
                /\ sent[j][2] = Candidates[LastProbed(w) + 1]
                /\ sent[j][2] = password
                /\ sent[j][3] = Len(probed[w])
                /\ sent[j][3] = (LastProbed(w) \div args.workers) + 1
                /\ LastProbed(w) % args.workers = w

\* The winner's message of a run with two workers, in which requests may
\* get no response, carries 3 attempts for the candidate at position 4.
C27_Witness ==
    /\ variant = "attack"
    /\ args.workers = 2
    /\ ~net_ok
    /\ mpc = "done"
    /\ report.kind = "SUCCESS"
    /\ report.found = <<sent[1]>>
    /\ sent[1][1] = 0
    /\ sent[1][3] = 3
    /\ LastProbed(0) = 4


\* rainbow_attack.py main(), lines 82-96: the serial loop over the users,
\* as the record of its two counters and of the [CRACKED] lines it prints.
RECURSIVE serial_rainbow(_, _)
serial_rainbow(us, table) ==
    IF us = <<>> THEN [found |-> 0, not_found |-> 0, cracked |-> <<>>]
    ELSE LET username == us[Len(us)][1]
             password_plain == us[Len(us)][2]
             pwd_hash == sha1(password_plain)
             before == serial_rainbow(SubSeq(us, 1, Len(us) - 1), table)
         IN  IF pwd_hash \in DOMAIN table
             THEN [found |-> before.found + 1,
                   not_found |-> before.not_found,
                   cracked |-> Append(before.cracked,
                                      <<username, table[pwd_hash]>>)]
             ELSE [found |-> before.found,
                   not_found |-> before.not_found + 1,
                   cracked |-> before.cracked]

\* The elements of a sequence.
Range(seq) == {seq[j] : j \in DOMAIN seq}

\* C28: for every user list, rainbow table and num_workers >= 1 the parallel
\* coordinator ends with the totals and the set of (username, password)
\* pairs of the serial rainbow attack on the same inputs, whatever the order
\* in which the workers' messages arrived.
C28_ParallelEqualsSerial ==
    (variant = "rainbow" /\ args.workers >= 1 /\ mpc = "done"
        /\ rc = {EXIT_SUCCESS}) =>
        LET serial == serial_rainbow(users, rainbow_table)
        IN  /\ total_found = serial.found
            /\ total_not_found = serial.not_found
            /\ Range(cracked_passwords) = Range(serial.cracked)
            /\ Len(cracked_passwords) = Len(serial.cracked)
            /\ total_found + total_not_found = Len(users)

\* A run with two workers that cracked two of three users and received the
\* two pairs in the other order than the serial attack prints them.
C28_Witness ==
    /\ variant = "rainbow"
    /\ args.workers = 2
    /\ mpc = "done"
    /\ rc = {EXIT_SUCCESS}
    /\ Len(users) = 3
    /\ total_found = 2
    /\ total_not_found = 1
    /\ cracked_passwords # serial_rainbow(users, rainbow_table).cracked


\* The lockout has expired.
Expired == locked_until > 0 /\ now >= locked_until

\* C29: a successful login writes failed_attempts = 0 and locked_until = 0
\* and is answered 200; the lock check of a request that finds an expired
\* lockout does not answer 403 but writes both fields to 0 and lets the
\* request go on to the other defences, so that, with requests handled one
\* after another, the next failed password check counts as the first of
\* five again.
C29_ResetOnSuccessAndExpiry ==
    [][\A r \in Clients :
          /\ Leaves(r, "reset") =>
                /\ failed_attempts' = 0
                /\ locked_until' = 0
                /\ last'.status = 200
                /\ last'.client = r
                /\ rpc'[r] = "idle"
          /\ (Leaves(r, "lock") /\ ForUser(r) /\ Expired) =>
                /\ rpc'[r] = "lock_reset"
                /\ last' = last
          /\ Leaves(r, "lock_reset") =>
                /\ failed_attempts' = 0
                /\ locked_until' = 0
                /\ rpc'[r] = "delay"
                /\ last' = last
          /\ (Leaves(r, "inc_write") /\ ~overlapped /\ failed_attempts = 0) =>
                /\ failed_attempts' = 1
                /\ locked_until' = 0]_vars

\* After five failures and the end of the lockout, the lock check of the
\* sixth request has reset the record and the request goes on.
C29_Witness ==
    /\ ~overlapped
    /\ requests = 6
    /\ now >= LOCKOUT_DURATION_SECONDS
    /\ failed_attempts = 0
    /\ locked_until = 0
    /\ \E r \in Clients : rpc[r] = "delay"


\* C30: the lock check is the first defence of login(). A request that
\* carries username and password enters the handler at the lock check; if
\* the account it names is locked at that check the request is answered 403 there:
\* no delay has been or is applied, the CAPTCHA and the password are not
\* looked at, and failed_attempts and locked_until stay as they are. The
\* delay is reached only past a lock check that found no lock in force, the
\* CAPTCHA only past the delay, the password check only past the CAPTCHA.
C30_LockCheckFirst ==
    [][\A r \in Clients :
          /\ (Leaves(r, "lock") /\ ForUser(r) /\ Locked) =>
                /\ rpc'[r] = "idle"
                /\ last'.client = r
                /\ last'.status = 403
                /\ last'.delay = 0
                /\ delay[r] = 0
                /\ UNCHANGED <<failed_attempts, locked_until, now>>
          /\ (Leaves(r, "lock") /\ ~(ForUser(r) /\ Locked)) =>
                /\ rpc'[r] = IF ForUser(r) /\ Expired
                             THEN "lock_reset" ELSE "delay"
                /\ last' = last
          /\ Leaves(r, "idle") => (rpc'[r] = "lock" /\ delay'[r] = 0)
          /\ (rpc'[r] = "delay" /\ rpc[r] # "delay") =>
                rpc[r] \in {"lock", "lock_reset"}
          /\ (rpc'[r] = "captcha" /\ rpc[r] # "captcha") => rpc[r] = "delay"
          /\ (rpc'[r] = "password" /\ rpc[r] # "password") =>
                rpc[r] = "captcha"
          /\ (rpc'[r] \in {"reset", "inc_read"} /\ rpc[r] # rpc'[r]) =>
                rpc[r] = "password"]_vars

\* A request with a wrong password and no valid CAPTCHA, made while the
\* account is locked, was answered 403 (not 400 or 401) with no delay.
C30_Witness ==
    /\ Locked
    /\ failed_attempts = MAX_FAILED_ATTEMPTS
    /\ last.status = 403
    /\ last.delay = 0
    /\ ~last.captcha
    /\ ~checkpw(last.password, hashpw(password))
    /\ requests = 6


\* C31: with the delay enabled, the delay comes before the CAPTCHA check.
\* Every request that has passed the lock check sleeps its delay (at least
\* the base delay) and only then has its CAPTCHA verified; a request whose
\* CAPTCHA is not valid is answered 400 after that delay.
C31_DelayBeforeCaptcha ==
    [][ENABLE_DELAY =>
          \A r \in Clients :
              /\ Leaves(r, "delay") =>
                    /\ rpc'[r] = "captcha"
                    /\ delay'[r] >= PROGRESSIVE_DELAY_BASE
                    /\ last' = last
              /\ Leaves(r, "captcha") =>
                    /\ delay[r] >= PROGRESSIVE_DELAY_BASE
                    /\ IF req[r].captcha
                       THEN /\ rpc'[r] = "password"
                            /\ delay'[r] = delay[r]
                            /\ last' = last
                       ELSE /\ rpc'[r] = "idle"
                            /\ last'.client = r
                            /\ last'.status = 400
                            /\ last'.delay = delay[r]]_vars

\* After two failed password checks, a request without a valid CAPTCHA was
\* answered 400 after a delay of 4 seconds.
C31_Witness ==
    /\ ~overlapped
    /\ failed_attempts = 2
    /\ last.status = 400
    /\ last.password # ""
    /\ ~last.captcha
    /\ last.delay = 4


\* Handler r takes a step for a request whose CAPTCHA is not valid.
CaptchaFailingStep(r) ==
    /\ rpc[r] # "idle"
    /\ ~req[r].captcha
    /\ rpc'[r] # rpc[r]

\* Handler r answers a request that lacks username or password.
MissingCredentialsStep(r) ==
    /\ rpc[r] = "idle"
    /\ rpc' = rpc
    /\ requests' = requests + 1
    /\ last'.client = r

\* C32: a request rejected for missing credentials or for a failed CAPTCHA
\* leaves failed_attempts and locked_until unchanged, at every step of its
\* handling.
C32_RejectedLeavesRecord ==
    [][\A r \in Clients :
          (CaptchaFailingStep(r) \/ MissingCredentialsStep(r)) =>
              UNCHANGED <<failed_attempts, locked_until>>]_vars

\* C32 amended: a request rejected for missing credentials leaves the record
\* unchanged; a request whose CAPTCHA is not valid never reaches the
\* password check and never raises failed_attempts or locked_until, but its
\* lock check resets both to 0 when it finds an expired lockout. The counter
\* is raised, and the lock set, only by the failed password check of a
\* request with a valid CAPTCHA.
C32_RejectedNeverRaisesRecord ==
    [][/\ \A r \in Clients :
             /\ MissingCredentialsStep(r) =>
                   /\ UNCHANGED <<failed_attempts, locked_until>>
                   /\ last'.status = 400
             /\ CaptchaFailingStep(r) =>
                   /\ rpc'[r] \in {"idle", "lock_reset", "delay", "captcha"}
                   /\ IF rpc[r] = "lock_reset"
                      THEN failed_attempts' = 0 /\ locked_until' = 0
                      ELSE UNCHANGED <<failed_attempts, locked_until>>
                   /\ rpc'[r] = "lock_reset" => Expired
       /\ (failed_attempts' > failed_attempts
              \/ locked_until' > locked_until) =>
             \E r \in Clients :
                 /\ Leaves(r, "inc_write")
                 /\ req[r].captcha
                 /\ ~checkpw(req[r].password, hashpw(password))
                 /\ last'.status = 401]_vars

\* Five failed password checks locked the account; after the lockout ended
\* a sixth request, without a valid CAPTCHA, was answered 400 and the record
\* is back to 0, 0.
C32_Witness ==
    /\ ~overlapped
    /\ requests = 6
    /\ now >= LOCKOUT_DURATION_SECONDS
    /\ last.status = 400
    /\ last.password # ""
    /\ ~last.captcha
    /\ failed_attempts = 0
    /\ locked_until = 0


\* C33: in every reachable state of the user's record, locked_until > 0
\* implies failed_attempts >= MAX_FAILED_ATTEMPTS, and failed_attempts is
\* not negative; a request that names an unknown user changes no record at
\* any step: its increment_failed_attempts finds no row and writes nothing,
\* and it reaches no reset_failed_attempts.
C33_LockoutInvariant ==
    /\ [](/\ locked_until > 0 => failed_attempts >= MAX_FAILED_ATTEMPTS
          /\ failed_attempts >= 0
          /\ locked_until >= 0)
    /\ [][\A r \in Clients :
             (rpc[r] # "idle" /\ ~ForUser(r) /\ rpc'[r] # rpc[r]) =>
                 /\ UNCHANGED <<failed_attempts, locked_until>>
                 /\ rpc'[r] \notin {"inc_write", "lock_reset", "reset"}
                 /\ Leaves(r, "inc_read") => last'.status = 401]_vars

\* With the account locked after five failures, a request for an unknown
\* name went through the defences (delay 2^0) and was answered 401; the
\* record is as the fifth failure left it.
C33_Witness ==
    /\ ~overlapped
    /\ Locked
    /\ failed_attempts = MAX_FAILED_ATTEMPTS
    /\ locked_until = LOCKOUT_DURATION_SECONDS
    /\ last.status = 401
    /\ last.delay = PROGRESSIVE_DELAY_BASE
    /\ last.captcha


\* ---------------------------------------------------------------------------
\* C34: no increment of failed_attempts is lost when requests with a wrong
\* password for the user are handled concurrently: every failed password
\* check recorded since the last reset is in the counter, so that the
\* account is locked once MAX_FAILED_ATTEMPTS of them have been recorded.
C34_NoLostIncrement ==
    /\ streak <= failed_attempts
    /\ streak >= MAX_FAILED_ATTEMPTS => locked_until > 0


\* ---------------------------------------------------------------------------
\* C35: in every interleaving of the requests for the user, no handler
\* checks the password, answers 200 or resets the counter while the stored
\* locked_until is in the future.
C35_NoPasswordCheckWhileLocked ==
    [][\A r \in Clients :
          (/\ ForUser(r)
           /\ Locked
           /\ rpc'[r] # rpc[r]) =>
              /\ rpc[r] \notin {"password", "reset", "lock_reset"}
              /\ last'.status # 200
              /\ failed_attempts' >= failed_attempts]_vars


-----------------------------------------------------------------------------
\* defense/logging.py: log_auth_attempt, called by the handler threads of
\* the server (variant = "logging").

MaxCalls == 4

EMAIL_ALERT_THRESHOLD == 3
EMAIL_ALERT_WINDOW == 300

\* `SELECT email FROM users WHERE username = ?`: only the user has a row,
\* and an email address in it.
HasEmail(username) == HasRow(username)

\* The calls log_auth_attempt may get: a success is logged for a user with a
\* row only (secure_server.py lines 116-126).
Calls == {c \in Usernames \X BOOLEAN : c[2] => HasRow(c[1])}

\* `SELECT COUNT(*) ... WHERE username = ? AND success = 0 AND timestamp > ?`
CountFailedSince(rows, username, threshold_time) ==
    Cardinality({j \in 1 .. Len(rows) :
                    /\ rows[j].username = username
                    /\ ~rows[j].success
                    /\ rows[j].timestamp > threshold_time})

\* get_last_alert_time returns a time: the dict has the key.
HasAlertTime(username) == username \in DOMAIN last_alert_times

\* `not last_alert_time or (time.time() - last_alert_time) > EMAIL_ALERT_WINDOW`
MayAlert(username) ==
    \/ ~HasAlertTime(username)
    \/ last_alert_times[username] = 0
    \/ now - last_alert_times[username] > EMAIL_ALERT_WINDOW

InitLogging ==
    /\ variant = "logging"
    /\ args = [workers |-> 0]
    /\ password = "secret"
    /\ net_ok = TRUE
    /\ users = <<>>
    /\ rainbow_table = <<>>
    /\ InitCommon
    /\ now = 1
    /\ ticks = 0
    /\ requests = 0
    /\ failed_attempts = 0
    /\ locked_until = 0
    /\ rpc = [r \in Clients |-> "idle"]
    /\ req = [r \in Clients |-> NoRequest]
    /\ new_count = [r \in Clients |-> 0]
    /\ delay = [r \in Clients |-> 0]
    /\ last = NoResponse
    /\ overlapped = FALSE
    /\ streak = 0
    /\ FORMSPREE_ENABLED \in BOOLEAN
    /\ auth_attempts = <<>>
    /\ last_alert_times = << >>
    /\ alerts = <<>>
    /\ lpc = [t \in Clients |-> "idle"]
    /\ lreq = [t \in Clients |-> NoCall]
    /\ failed_count = [t \in Clients |-> 0]
    /\ InitNoMono

logging_frame ==
    <<inputs, coordinator_vars, mono_vars, requests, failed_attempts,
      locked_until, rpc, req, new_count, delay, last, streak,
      FORMSPREE_ENABLED>>

\* The clock advances: by a second, or by the length of the alert window.
LogTick ==
    /\ variant = "logging"
    /\ ticks < MaxTicks
    /\ ticks' = ticks + 1
    /\ now' \in {now + 1, now + EMAIL_ALERT_WINDOW}
    /\ UNCHANGED <<logging_frame, overlapped, auth_attempts, last_alert_times,
                   alerts, lpc, lreq, failed_count>>

\* Lines 64-68: the call inserts its row and commits; lines 71 and 91-96: a
\* successful attempt is written to the file and the call returns.
LogInsert(t) ==
    /\ variant = "logging"
    /\ lpc[t] = "idle"
    /\ Len(auth_attempts) < MaxCalls
    /\ \E c \in Calls :
          /\ auth_attempts' =
                 Append(auth_attempts,
                        [username |-> c[1], timestamp |-> now,
                         success |-> c[2]])
          /\ IF c[2]
             THEN UNCHANGED <<lpc, lreq>>
             ELSE /\ lpc' = [lpc EXCEPT ![t] = "select"]
                  /\ lreq' = [lreq EXCEPT ![t] =
                                 [username |-> c[1], success |-> c[2]]]
    /\ overlapped' = (overlapped \/ \E q \in Clients \ {t} : lpc[q] # "idle")
    /\ UNCHANGED <<logging_frame, now, ticks, last_alert_times, alerts,
                   failed_count>>

\* `return` of log_auth_attempt: the locals of thread t are gone.
LogReturn(t) ==
    /\ lpc' = [lpc EXCEPT ![t] = "idle"]
    /\ lreq' = [lreq EXCEPT ![t] = NoCall]
    /\ failed_count' = [failed_count EXCEPT ![t] = 0]

\* Lines 72-85: the email of the user is read and the failed attempts of
\* the window are counted; below the threshold the call returns.
LogSelect(t) ==
    /\ variant = "logging"
    /\ lpc[t] = "select"
    /\ LET count == CountFailedSince(auth_attempts, lreq[t].username,
                                     now - EMAIL_ALERT_WINDOW)
       IN  IF HasEmail(lreq[t].username) /\ count >= EMAIL_ALERT_THRESHOLD
           THEN /\ failed_count' = [failed_count EXCEPT ![t] = count]
                /\ lpc' = [lpc EXCEPT ![t] = "check"]
                /\ UNCHANGED lreq
           ELSE LogReturn(t)
    /\ UNCHANGED <<logging_frame, overlapped, now, ticks, auth_attempts,
                   last_alert_times, alerts>>

\* Lines 87-88: the time of the last alert is looked up.
LogCheck(t) ==
    /\ variant = "logging"
    /\ lpc[t] = "check"
    /\ IF MayAlert(lreq[t].username)
       THEN /\ lpc' = [lpc EXCEPT ![t] = "send"]
            /\ UNCHANGED <<lreq, failed_count>>
       ELSE LogReturn(t)
    /\ UNCHANGED <<logging_frame, overlapped, now, ticks, auth_attempts,
                   last_alert_times, alerts>>

\* Line 89 with send_alert_email (lines 99-144): the alert is posted to
\* Formspree when that is enabled.
LogSend(t) ==
    /\ variant = "logging"
    /\ lpc[t] = "send"
    /\ alerts' = IF FORMSPREE_ENABLED
                 THEN Append(alerts, [username |-> lreq[t].username,
                                      time |-> now,
                                      failed_count |-> failed_count[t]])
                 ELSE alerts
    /\ lpc' = [lpc EXCEPT ![t] = "set"]
    /\ UNCHANGED <<logging_frame, overlapped, now, ticks, auth_attempts,
                   last_alert_times, lreq, failed_count>>

\* Line 90 with set_last_alert_time (lines 51-53), then the call returns.
LogSet(t) ==
    /\ variant = "logging"
    /\ lpc[t] = "set"
    /\ last_alert_times' =
           [u \in DOMAIN last_alert_times \cup {lreq[t].username} |->
               IF u = lreq[t].username THEN now ELSE last_alert_times[u]]
    /\ LogReturn(t)
    /\ UNCHANGED <<logging_frame, overlapped, now, ticks, auth_attempts,
                   alerts>>

log_auth_attempt(t) ==
    \/ LogInsert(t)
    \/ LogSelect(t)
    \/ LogCheck(t)
    \/ LogSend(t)
    \/ LogSet(t)

NextLogging ==
    \/ LogTick
    \/ \E t \in Clients : log_auth_attempt(t)

SpecLogging == InitLogging /\ [][NextLogging]_vars


\* ---------------------------------------------------------------------------
\* C36: an alert is posted only by a call that logs a failed attempt of a
\* user who then has at least EMAIL_ALERT_THRESHOLD failed attempts logged
\* within the last EMAIL_ALERT_WINDOW seconds; a call that logs a success
\* goes no further than its row; and two alerts for one user are more than
\* EMAIL_ALERT_WINDOW seconds apart.
\* The step of thread t that leaves position pc of log_auth_attempt().
LogLeaves(t, pc) == lpc[t] = pc /\ lpc'[t] # pc

\* The failed attempts of a user that are logged within the window that
\* ends now.
RecentFailures(username) ==
    CountFailedSince(auth_attempts, username, now - EMAIL_ALERT_WINDOW)

C36_AlertThrottling ==
    /\ [](\A j, k \in DOMAIN alerts :
             (j < k /\ alerts[j].username = alerts[k].username) =>
                 alerts[k].time - alerts[j].time > EMAIL_ALERT_WINDOW)
    /\ [][/\ \A t \in Clients :
               /\ LogLeaves(t, "idle") =>
                      ~auth_attempts'[Len(auth_attempts')].success
               /\ (LogLeaves(t, "select") /\ lpc'[t] # "idle") =>
                      /\ ~lreq[t].success
                      /\ RecentFailures(lreq[t].username)
                             >= EMAIL_ALERT_THRESHOLD
          /\ alerts' # alerts =>
                 \E t \in Clients :
                    /\ LogLeaves(t, "send")
                    /\ ~lreq[t].success
                    /\ failed_count[t] >= EMAIL_ALERT_THRESHOLD
                    /\ alerts' = Append(alerts,
                                        [username |-> lreq[t].username,
                                         time |-> now,
                                         failed_count |-> failed_count[t]])]_vars


-----------------------------------------------------------------------------
\* attack/mono_attack.py: the serial attack (variant = "mono"). The loop of
\* try_post is the same in poly_attack.py and dictionary_attack.py.

max_retries == 3

\* requests.post(url, json=payload, timeout=timeout): the server's status
\* code, or requests.RequestException.
Post(c) == {Server(c)} \cup (IF net_ok THEN {} ELSE {"RequestException"})

\* pwd, the loop variable of main().
pwd == Candidates[pulled]

InitMono ==
    /\ variant = "mono"
    /\ \E c \in Alphabets \cup {<<>>}, l \in 0 .. MaxLen :
          args = [mode |-> "mono", workers |-> 0, alphabet |-> "custom",
                  custom |-> c, max_len |-> l, digits |-> FALSE, list |-> ""]
    /\ Len(Candidates) <= MaxCandidates
    /\ password \in Passwords
    /\ net_ok \in BOOLEAN
    /\ users = <<>>
    /\ rainbow_table = <<>>
    /\ InitCommon
    /\ InitNoServer
    /\ InitNoLogging
    /\ InitNoMono

mono_frame ==
    <<inputs, logging_vars, server_vars, mpc, i, interrupted, found_event,
      result_queue, sent, received, wpc, it, candidate, attempts, late, probed,
      set_calls, rainbow_vars>>

\* Lines 81-85: the alphabet is built; ValueError ends the run with 2.
MonoParse ==
    /\ variant = "mono"
    /\ spc = "parse"
    /\ IF CanBuild
       THEN /\ spc' = "next"
            /\ UNCHANGED rc
       ELSE /\ spc' = "done"
            /\ rc' = {EXIT_CONFIG}
    /\ UNCHANGED <<mono_frame, report, pulled, attempt, backoff, resp, tried,
                   outcomes, slept>>

\* Lines 95-101 and 123-124: the next candidate is taken and try_post is
\* entered with backoff = 0.5 (lines 49-50); when the product is used up,
\* "Not found" is printed and main() returns 1.
MonoNext ==
    /\ variant = "mono"
    /\ spc = "next"
    /\ IF pulled < Len(Candidates)
       THEN /\ pulled' = pulled + 1
            /\ backoff' = 500
            /\ attempt' = 1
            /\ outcomes' = <<>>
            /\ slept' = <<>>
            /\ spc' = "post"
            /\ UNCHANGED <<rc, report>>
       ELSE /\ spc' = "done"
            /\ rc' = {EXIT_NOT_FOUND}
            /\ report' = [kind |-> "NOT FOUND", found |-> <<>>]
            /\ UNCHANGED <<pulled, backoff, attempt, outcomes, slept>>
    /\ UNCHANGED <<mono_frame, resp, tried>>

MonoPostGiveUpEarly ==
    /\ variant = "mono"
    /\ spc = "post"
    /\ \E o \in Post(pwd) :
          /\ outcomes' = Append(outcomes, o)
          /\ IF o # "RequestException"
             THEN /\ resp' = o
                  /\ spc' = "returned"
             ELSE IF attempt = max_retries - 1
                  THEN /\ resp' = "None"
                       /\ spc' = "returned"
                  ELSE /\ spc' = "backoff"
                       /\ UNCHANGED resp
    /\ UNCHANGED <<mono_frame, rc, report, pulled, attempt, backoff, tried,
                   slept>>

\* Lines 51-58: one request; its response is returned, and None when the
\* request of the last attempt has raised.
MonoPost ==
    /\ variant = "mono"
    /\ spc = "post"
    /\ \E o \in Post(pwd) :
          /\ outcomes' = Append(outcomes, o)
          /\ IF o # "RequestException"
             THEN /\ resp' = o
                  /\ spc' = "returned"
             ELSE IF attempt = max_retries
                  THEN /\ resp' = "None"
                       /\ spc' = "returned"
                  ELSE /\ spc' = "backoff"
                       /\ UNCHANGED resp
    /\ UNCHANGED <<mono_frame, rc, report, pulled, attempt, backoff, tried,
                   slept>>

\* Lines 59-62 and 50: the sleep, the doubling, the next attempt.
MonoBackoff ==
    /\ variant = "mono"
    /\ spc = "backoff"
    /\ slept' = Append(slept, backoff)
    /\ backoff' = backoff * 2
    /\ attempt' = attempt + 1
    /\ spc' = "post"
    /\ UNCHANGED <<mono_frame, rc, report, pulled, resp, tried, outcomes>>

\* Lines 102-118: tried is counted; FOUND and 0 on status 200; otherwise,
\* also when try_post returned None, the sleep of args.delay and the next
\* turn of the loop.
MonoReturned ==
    /\ variant = "mono"
    /\ spc = "returned"
    /\ tried' = tried + 1
    /\ IF resp # "None" /\ resp = "200"
       THEN /\ spc' = "done"
            /\ rc' = {EXIT_SUCCESS}
            /\ report' = [kind |-> "FOUND", found |-> <<pwd>>]
       ELSE /\ spc' = "next"
            /\ UNCHANGED <<rc, report>>
    /\ UNCHANGED <<mono_frame, pulled, attempt, backoff, resp, outcomes,
                   slept>>

\* Lines 119-121: KeyboardInterrupt anywhere in the loop ends the run
\* with 130.
MonoInterrupt ==
    /\ variant = "mono"
    /\ spc \in {"next", "post", "backoff", "returned"}
    /\ spc' = "done"
    /\ rc' = {EXIT_INTERRUPTED}
    /\ UNCHANGED <<mono_frame, report, pulled, attempt, backoff, resp, tried,
                   outcomes, slept>>

NextMono ==
    \/ MonoParse
    \/ MonoNext
    \/ MonoPost
    \/ MonoBackoff
    \/ MonoReturned
    \/ MonoInterrupt

SpecMono == InitMono /\ [][NextMono]_vars


\* ---------------------------------------------------------------------------
\* C37: try_post makes at most max_retries requests for one candidate; it
\* sleeps 0.5 s, then 1.0 s, once after each failed request that is followed
\* by another; it returns the first response it gets, with no request after
\* it, and None only after max_retries failed requests in a row; main()
\* then counts the candidate as tried and goes on to the next one.
Failures(n) == [j \in 1 .. n |-> "RequestException"]

InTryPost == variant = "mono" /\ spc \in {"post", "backoff", "returned"}

C37_ProbeRetryLoop ==
    /\ [](InTryPost =>
             /\ Len(outcomes) <= max_retries
             /\ slept = SubSeq(<<500, 1000>>, 1, Len(slept))
             /\ Len(slept) = IF spc = "post" THEN Len(outcomes)
                             ELSE Len(outcomes) - 1
             /\ spc # "returned" => outcomes = Failures(Len(outcomes))
             /\ spc = "returned" =>
                   IF resp = "None"
                   THEN outcomes = Failures(max_retries)
                   ELSE /\ outcomes = Append(Failures(Len(outcomes) - 1), resp)
                        /\ resp = Server(pwd))
    /\ [][(variant = "mono" /\ spc = "returned" /\ spc' # "done"
              /\ resp = "None") =>
             /\ tried' = tried + 1
             /\ tried' = pulled
             /\ spc' = "next"
             /\ rc' = {}]_vars
    /\ [][(variant = "mono" /\ spc = "next" /\ spc' = "post") =>
             /\ pulled' = pulled + 1
             /\ tried = pulled]_vars

\* The first candidate was given up after max_retries failed requests and
\* counted; the second is in its second attempt, after a sleep of 0.5 s.
C37_Witness ==
    /\ variant = "mono"
    /\ spc = "post"
    /\ pulled = 2
    /\ tried = 1
    /\ resp = "None"
    /\ attempt = 2
    /\ outcomes = Failures(1)
    /\ slept = <<500>>

=============================================================================
